---- MODULE Spec2Model ----
(***************************************************************************)
(* The per-terminal command queue of the ZK push server.                   *)
(*                                                                         *)
(* The repository ships two server builds that implement the protocol      *)
(* endpoints over a table of command rows:                                 *)
(*   sqlite build: ZKPushServer + CommandManager over Database (sqlite3),  *)
(*                 table `commands` (src/commandManager.js,                *)
(*                 src/database.js, server in src/readme.md);              *)
(*   mysql build : the express app over a mysql2 pool with the handlers of *)
(*                 commandHandlers, table `device_commands`                *)
(*                 (src/unnamed/part_005, src/unnamed/part_002,            *)
(*                 src/migrate.js).                                        *)
(* Spec is the sqlite build, SpecMysql the mysql build.  Every handler is  *)
(* an async function: its SQL statements are the atomic steps, and other   *)
(* handlers may run between two awaited statements of one handler.         *)
(***************************************************************************)
EXTENDS Integers, Sequences, FiniteSets, TLC

VARIABLES
    now,        \* the store's clock, in seconds
    ticks,      \* clock advances so far
    commands,   \* the table: autoincrement id -> row
    nextId,     \* the next autoincrement id
    poll,       \* poll requests in flight: slot -> position and selected row
    reply,      \* the mysql build's reply request in flight
    sweeper,    \* position of cleanupOldCommands
    delivered,  \* history: the rows returned in poll responses, in order
    acked,      \* history: rows a processed Return=0 reply of their own terminal named
    devices,    \* the devices table, in insertion order
    sync_log,   \* the sync_log table, in insertion order
    stored,     \* the tables of uploaded data: the records stored
    upload,     \* history: the data uploads processed so far, in order
    responses,  \* history: the command replies answered so far, in order
    ops,        \* operator and init requests, in order of arrival: position and result
    tx          \* the transaction open on the store's one connection

vars == <<now, ticks, commands, nextId, poll, reply, sweeper, delivered, acked>>

\* the tables of the upload pipeline
syncVars == <<devices, sync_log, stored, upload, responses, ops, tx>>

(* ---------------------------- bounds ----------------------------------- *)

\* rows ever inserted into the table (sqlite build)
MaxCmds == 2
\* rows ever inserted into the table (mysql build, whose reply handler takes
\* up to three statements per line)
MaxCmdsMysql == 1
\* clock advances
MaxTicks == 1
\* concurrently running poll requests
NumPollers == 2
\* lines in one reply body
MaxLines == 2
\* commands returned by polls over a run
MaxDelivered == 3

(* ------------------------ program constants ---------------------------- *)

\* retry_count < 3
RetryLimit == 3
\* INTERVAL 24 HOUR, in seconds
DoneMaxAge == 86400
\* INTERVAL 1 HOUR, in seconds
PendingMaxAge == 3600

Serials == {"A01", "A02"}
Pollers == 1..NumPollers
Returns == {"0", "-1003"}
NULL == -1
\* a command id no row carries
UnknownId == 0

(* --------------------------- the table --------------------------------- *)

\* A row of `commands` (sqlite) / `device_commands` (mysql) as INSERTed:
\* status 'pending', created_at DEFAULT CURRENT_TIMESTAMP.  command_id is
\* generated fresh per row.  sent_at, completed_at and retry_count are columns
\* of the mysql build only; the sqlite build's result and executed_at, which
\* no statement reads, are left out.
CommandRow(sn, id) ==
    [command_id |-> id, device_serial |-> sn, status |-> "pending",
     created_at |-> now, sent_at |-> NULL, completed_at |-> NULL,
     retry_count |-> 0]

Rows == DOMAIN commands

\* INSERT INTO ... (command_id, device_serial, ..., status) VALUES (?, ?, ..., 'pending')
InsertCommand(sn, max) ==
    /\ nextId <= max
    /\ commands' = [r \in Rows \cup {nextId} |->
                      IF r = nextId THEN CommandRow(sn, nextId) ELSE commands[r]]
    /\ nextId' = nextId + 1

\* CommandManager.addCommand (sqlite build): one INSERT
addCommand(sn) ==
    /\ InsertCommand(sn, MaxCmds)
    /\ UNCHANGED <<now, ticks, poll, reply, sweeper, delivered, acked>>

\* queueCommandForDevice (mysql build): one INSERT
queueCommandForDevice(sn) ==
    /\ InsertCommand(sn, MaxCmdsMysql)
    /\ UNCHANGED <<now, ticks, poll, reply, sweeper, delivered, acked>>

(* ----------------------------- poll ------------------------------------ *)

\* WHERE device_serial = ? AND status = 'pending'
PendingOf(sn) ==
    {r \in Rows : commands[r].device_serial = sn /\ commands[r].status = "pending"}

\* ORDER BY created_at ASC LIMIT 1: the possible result sets.  created_at has a
\* resolution of one second and the statement names no second sort key, so any
\* pending row with the least created_at may be the one returned.
SelectOldestPending(sn) ==
    IF PendingOf(sn) = {} THEN { <<>> }
    ELSE { <<r>> : r \in {p \in PendingOf(sn) :
                            \A q \in PendingOf(sn) :
                               commands[p].created_at <= commands[q].created_at} }

IdlePoll == [pc |-> "idle", row |-> 0]

\* Request slots are interchangeable: a request takes the lowest free slot.
LowestIdle(p) == poll[p].pc = "idle" /\ \A q \in Pollers : q < p => poll[q].pc # "idle"

\* The SELECT of a poll.  With no pending row the request is answered `OK`
\* at once and changes nothing.
PollSelect(p, sn) ==
    /\ LowestIdle(p)
    /\ Len(delivered) < MaxDelivered
    /\ \E res \in SelectOldestPending(sn) :
          poll' = [poll EXCEPT ![p] =
                     IF res = <<>> THEN IdlePoll
                     ELSE [pc |-> "selected", row |-> res[1]]]
    /\ UNCHANGED <<now, ticks, commands, nextId, reply, sweeper, delivered, acked>>

\* The UPDATE of a poll, followed in the same turn by the response
\* `C:<command_id>:<command_data>` built from the row the SELECT returned.
PollUpdate(p, marked) ==
    /\ poll[p].pc = "selected"
    /\ commands' = marked
    /\ poll' = [poll EXCEPT ![p] = IdlePoll]
    /\ delivered' = Append(delivered, poll[p].row)
    /\ UNCHANGED <<now, ticks, nextId, reply, sweeper, acked>>

\* a WHERE clause that keys the UPDATE on the terminal instead of the command
getNextCommandWhere_bySerial(id) ==
    {r \in Rows : \E k \in Rows : /\ commands[k].command_id = id
                                  /\ commands[r].device_serial = commands[k].device_serial}

\* sqlite build: WHERE command_id = ?  (command_id is UNIQUE)
getNextCommandWhere(id) == {r \in Rows : commands[r].command_id = id}

\* sqlite build: UPDATE commands SET status = 'sent' WHERE command_id = ?
getNextCommandMark(id) ==
    [r \in Rows |->
       IF r \in getNextCommandWhere(id)
       THEN [commands[r] EXCEPT !.status = "sent"]
       ELSE commands[r]]

\* CommandManager.getNextCommand, up to its first await: the SELECT
getNextCommand(p, sn) == PollSelect(p, sn)

\* CommandManager.getNextCommand, after the SELECT: UPDATE, format, return
getNextCommand_update(p) ==
    PollUpdate(p, getNextCommandMark(poll[p].row))

\* an UPDATE that marks every row of the command's terminal
markCommandSentMark_bySerial(id) ==
    [r \in Rows |->
       IF commands[r].device_serial = commands[id].device_serial
       THEN [commands[r] EXCEPT !.status = "sent", !.sent_at = now]
       ELSE commands[r]]

\* mysql build: UPDATE device_commands SET status = 'sent', sent_at = NOW() WHERE id = ?
markCommandSentMark(id) ==
    [r \in Rows |->
       IF r = id
       THEN [commands[r] EXCEPT !.status = "sent", !.sent_at = now]
       ELSE commands[r]]

\* GET /iclock/getrequest (mysql build) up to getDeviceCommands' SELECT
getDeviceCommands(p, sn) == PollSelect(p, sn)

\* markCommandSent(commands[0].id), then res.send
markCommandSent(p) ==
    PollUpdate(p, markCommandSentMark(poll[p].row))

(* ----------------------------- reply ----------------------------------- *)

\* One line of a reply body, `ID=<id>&Return=<ret>&CMD=DATA`, as its
\* '&'-separated parts, each part as its '='-separated pieces.
ReplyLine(id, ret) == << <<"ID", id>>, <<"Return", ret>>, <<"CMD", "DATA">> >>

\* Command ids a terminal can name: those some poll has put on the wire, and
\* an id no row carries.
WireIds == {delivered[i] : i \in 1..Len(delivered)}

Lines(ids) == {ReplyLine(id, ret) : id \in ids, ret \in Returns}

\* bodies of n lines that report distinct commands
RECURSIVE Batches(_, _)
Batches(n, ids) ==
    IF n = 0 THEN { <<>> }
    ELSE UNION { {<<ReplyLine(id, ret)>> \o b : b \in Batches(n - 1, ids \ {id})} :
                 id \in ids, ret \in Returns }

\* Reply bodies: up to MaxLines lines that report distinct commands.
Bodies ==
    {<<l>> : l \in Lines(WireIds \cup {UnknownId})}
        \cup UNION {Batches(n, WireIds \cup {UnknownId}) : n \in 2..MaxLines}

LineId(line) == line[1][2]
LineReturn(line) == line[2][2]

\* replyData.split('&') on the body, whose lines are joined by "\n": the last
\* part of a line and the first part of the next are one part,
\* `CMD=DATA\nID=<id>`, with three '='-separated pieces.
RECURSIVE SplitAmp(_)
SplitAmp(body) ==
    IF Len(body) = 1 THEN body[1]
    ELSE LET rest == SplitAmp(Tail(body))
             last == body[1][Len(body[1])]
             glued == <<last[1], <<last[2], "\n", rest[1][1]>>, rest[1][2]>>
         IN  SubSeq(body[1], 1, Len(body[1]) - 1) \o <<glued>> \o Tail(rest)

\* the loop of parseCommandReply: `const [key, value] = part.split('=')`,
\* then reply[key] = value, a later part overwriting an earlier one
RECURSIVE ParseParts(_, _)
ParseParts(parts, acc) ==
    IF parts = <<>> THEN acc
    ELSE LET key == parts[1][1]
             value == parts[1][2]
         IN  ParseParts(Tail(parts),
                        [k \in DOMAIN acc \cup {key} |->
                           IF k = key THEN value ELSE acc[k]])

\* CommandManager.parseCommandReply
parseCommandReply(body) == ParseParts(SplitAmp(body), << >>)

\* the rows of a terminal that carry a command id
RowsOf(id, sn) ==
    {r \in Rows : commands[r].command_id = id /\ commands[r].device_serial = sn}

\* the rows of the replying terminal that a Return=0 line of the body names
OkRows(sn, body) ==
    UNION {RowsOf(LineId(body[i]), sn) : i \in {j \in DOMAIN body : LineReturn(body[j]) = "0"}}

\* sqlite build: WHERE command_id = ? AND device_serial = ?
processCommandReplyWhere(id, sn) == RowsOf(id, sn)

\* CommandManager.processCommandReply (sqlite build): parse, then, when the
\* parsed reply has an ID, UPDATE commands SET status = 'completed', result = ?,
\* executed_at = CURRENT_TIMESTAMP WHERE ...; handleCommandResult only logs.
processCommandReply(sn, body) ==
    /\ LET parsed == parseCommandReply(body)
           hit == IF "ID" \in DOMAIN parsed
                  THEN processCommandReplyWhere(parsed["ID"], sn) ELSE {}
       IN  /\ commands' = [r \in Rows |->
                             IF r \in hit
                             THEN [commands[r] EXCEPT !.status = "completed"]
                             ELSE commands[r]]
           /\ acked' = acked \cup (hit \cap OkRows(sn, body))
    /\ UNCHANGED <<now, ticks, nextId, poll, reply, sweeper, delivered>>

\* mysql build: WHERE command_id = ? of markCommandCompleted's statements
markCommandCompletedWhere(id) == {r \in Rows : commands[r].command_id = id}

\* markCommandCompleted, first statement:
\* UPDATE device_commands SET status = ?, completed_at = NOW() WHERE command_id = ?
\* with status = returnCode === '0' ? 'completed' : 'failed'
SetStatus(id, ret) ==
    [r \in Rows |->
       IF r \in markCommandCompletedWhere(id)
       THEN [commands[r] EXCEPT !.status = IF ret = "0" THEN "completed" ELSE "failed",
                                !.completed_at = now]
       ELSE commands[r]]

\* second statement: SET retry_count = retry_count + 1 WHERE ... AND retry_count < 3
IncrementRetry(id) ==
    [r \in Rows |->
       IF r \in markCommandCompletedWhere(id) /\ commands[r].retry_count < RetryLimit
       THEN [commands[r] EXCEPT !.retry_count = @ + 1]
       ELSE commands[r]]

\* third statement: SET status = 'pending', sent_at = NULL WHERE ... AND retry_count < 3
ResetToPending(id) ==
    [r \in Rows |->
       IF r \in markCommandCompletedWhere(id) /\ commands[r].retry_count < RetryLimit
       THEN [commands[r] EXCEPT !.status = "pending", !.sent_at = NULL]
       ELSE commands[r]]

IdleReply == [pc |-> "idle", sn |-> "A01", body |-> << >>]

\* the handler's position once the line at the head of `body` is done
NextLine(sn, body) ==
    IF Len(body) > 1 THEN [pc |-> "mark", sn |-> sn, body |-> Tail(body)]
    ELSE IdleReply

\* the first statement of markCommandCompleted for the line at the head of body
MarkLine(sn, body) ==
    /\ commands' = SetStatus(LineId(body[1]), LineReturn(body[1]))
    /\ acked' = acked \cup OkRows(sn, <<body[1]>>)
    /\ reply' = IF LineReturn(body[1]) = "0" THEN NextLine(sn, body)
                ELSE [pc |-> "retry", sn |-> sn, body |-> body]

\* POST /iclock/devicecmd (mysql build): the request arrives and the handler
\* runs to its first await, the first statement for the first line.
devicecmd(sn, body) ==
    /\ reply.pc = "idle"
    /\ MarkLine(sn, body)
    /\ UNCHANGED <<now, ticks, nextId, poll, sweeper, delivered>>

\* the loop reaches the next line: markCommandCompleted's first statement
markCommandCompleted ==
    /\ reply.pc = "mark"
    /\ MarkLine(reply.sn, reply.body)
    /\ UNCHANGED <<now, ticks, nextId, poll, sweeper, delivered>>

markCommandCompleted_retry ==
    /\ reply.pc = "retry"
    /\ commands' = IncrementRetry(LineId(reply.body[1]))
    /\ reply' = [reply EXCEPT !.pc = "requeue"]
    /\ UNCHANGED <<now, ticks, nextId, poll, sweeper, delivered, acked>>

markCommandCompleted_requeue ==
    /\ reply.pc = "requeue"
    /\ commands' = ResetToPending(LineId(reply.body[1]))
    /\ reply' = NextLine(reply.sn, reply.body)
    /\ UNCHANGED <<now, ticks, nextId, poll, sweeper, delivered, acked>>

(* ---------------------------- sweeper ---------------------------------- *)

\* DELETE ... WHERE status IN ('completed','failed')
\*              AND completed_at < DATE_SUB(NOW(), INTERVAL 24 HOUR)
SweepDone ==
    {r \in Rows : /\ commands[r].status \in {"completed", "failed"}
                  /\ commands[r].completed_at # NULL
                  /\ commands[r].completed_at < now - DoneMaxAge}

\* the second DELETE without its retry_count condition
SweepPending_anyRetry ==
    {r \in Rows : /\ commands[r].status = "pending"
                  /\ commands[r].created_at < now - PendingMaxAge}

\* DELETE ... WHERE status = 'pending'
\*              AND created_at < DATE_SUB(NOW(), INTERVAL 1 HOUR) AND retry_count >= 3
SweepPending ==
    {r \in Rows : /\ commands[r].status = "pending"
                  /\ commands[r].created_at < now - PendingMaxAge
                  /\ commands[r].retry_count >= RetryLimit}

Delete(gone) == [r \in Rows \ gone |-> commands[r]]

\* cleanupOldCommands (mysql build, on an hourly timer): first DELETE
cleanupOldCommands ==
    /\ sweeper = "idle"
    /\ commands' = Delete(SweepDone)
    /\ sweeper' = "pending"
    /\ UNCHANGED <<now, ticks, nextId, poll, reply, delivered, acked>>

\* cleanupOldCommands: second DELETE
cleanupOldCommands_pending ==
    /\ sweeper = "pending"
    /\ commands' = Delete(SweepPending)
    /\ sweeper' = "idle"
    /\ UNCHANGED <<now, ticks, nextId, poll, reply, delivered, acked>>

(* ---------------------------- clock ------------------------------------ *)

\* the mysql build's clock advances by just over an hour or just over a day,
\* the two ages its sweeper tells apart
TickAges == {PendingMaxAge + 1, DoneMaxAge + 1}

Tick(d) ==
    /\ ticks < MaxTicks
    /\ now' = now + d
    /\ ticks' = ticks + 1
    /\ UNCHANGED <<commands, nextId, poll, reply, sweeper, delivered, acked>>

(* ------------------------- specifications ------------------------------ *)

Init ==
    /\ now = 0
    /\ ticks = 0
    /\ commands = << >>
    /\ nextId = 1
    /\ poll = [p \in Pollers |-> IdlePoll]
    /\ reply = IdleReply
    /\ sweeper = "idle"
    /\ delivered = << >>
    /\ acked = {}
    /\ devices = << >>
    /\ sync_log = << >>
    /\ stored = {}
    /\ upload = << >>
    /\ responses = << >>
    /\ ops = << >>
    /\ tx = [open |-> FALSE]

\* the sqlite build
Next ==
    \/ \E sn \in Serials : addCommand(sn)
    \/ \E p \in Pollers, sn \in Serials : getNextCommand(p, sn)
    \/ \E p \in Pollers : getNextCommand_update(p)
    \/ \E sn \in Serials, body \in Bodies : processCommandReply(sn, body)
    \/ Tick(1)

Spec == Init /\ [][Next /\ UNCHANGED syncVars]_vars

\* the mysql build
NextMysql ==
    \/ \E sn \in Serials : queueCommandForDevice(sn)
    \/ \E p \in Pollers, sn \in Serials : getDeviceCommands(p, sn)
    \/ \E p \in Pollers : markCommandSent(p)
    \/ \E sn \in Serials, body \in Bodies : devicecmd(sn, body)
    \/ markCommandCompleted
    \/ markCommandCompleted_retry
    \/ markCommandCompleted_requeue
    \/ cleanupOldCommands
    \/ cleanupOldCommands_pending
    \/ \E d \in TickAges : Tick(d)

SpecMysql == Init /\ [][NextMysql /\ UNCHANGED syncVars]_vars

\* the mysql build with terminals that poll and never reply.  The sweeper runs on
\* a timer and a handler in flight runs on, so both are weakly fair; requests
\* arrive as the terminals please.
NextSilent ==
    \/ \E sn \in Serials : queueCommandForDevice(sn)
    \/ \E p \in Pollers, sn \in Serials : getDeviceCommands(p, sn)
    \/ \E p \in Pollers : markCommandSent(p)
    \/ cleanupOldCommands
    \/ cleanupOldCommands_pending
    \/ \E d \in TickAges : Tick(d)

FairSpecSilent ==
    /\ Init /\ [][NextSilent /\ UNCHANGED syncVars]_vars
    /\ WF_vars(cleanupOldCommands /\ UNCHANGED syncVars)
    /\ WF_vars(cleanupOldCommands_pending /\ UNCHANGED syncVars)
    /\ WF_vars((\E p \in Pollers : markCommandSent(p)) /\ UNCHANGED syncVars)
    /\ WF_vars((\E d \in TickAges : Tick(d)) /\ UNCHANGED syncVars)

(* ------------------------------ claims --------------------------------- *)

StatusOf(r) == commands[r].status

\* the rows a step takes from `pending` to `sent`
PendingToSent ==
    {r \in Rows \cap DOMAIN commands' :
        commands[r].status = "pending" /\ commands'[r].status = "sent"}

\* the rows a step adds to the poll responses
Returned == {delivered'[i] : i \in (Len(delivered) + 1)..Len(delivered')}

\* C1: no command row is returned by more than one poll (in the sqlite build a
\* row is pending once, so it is returned at most once), whatever the
\* interleaving of the polls' SELECT and UPDATE.
C1_ReturnedOnce ==
    \A i, j \in 1..Len(delivered) : i # j => delivered[i] # delivered[j]

\* C2: a row of the replying terminal that a processed Return=0 reply named is
\* `completed` and stays `completed` in every later state.
C2_AckedStaysCompleted ==
    \A r \in acked \cap Rows : StatusOf(r) = "completed"

\* C3: a reply with a non-zero Return that names a sent row increments its retry
\* counter; the row returns to `pending` with sent_at cleared while the counter
\* is below 3, becomes `failed` on the third failure, and is never `completed`.
C3_FailureRetries ==
    [][\A sn \in Serials, id \in WireIds, ret \in Returns \ {"0"} :
         processCommandReply(sn, <<ReplyLine(id, ret)>>) =>
            \A r \in RowsOf(id, sn) :
               StatusOf(r) = "sent" =>
                  /\ commands'[r].retry_count = commands[r].retry_count + 1
                  /\ commands'[r].status =
                        IF commands[r].retry_count + 1 < RetryLimit
                        THEN "pending" ELSE "failed"
                  /\ commands'[r].status = "pending" => commands'[r].sent_at = NULL]_vars

\* C4: the only status changes of a row are pending->sent, sent->completed,
\* sent->pending and sent->failed.
C4_OnlyQueueTransitions ==
    [][\A r \in Rows \cap DOMAIN commands' :
         commands'[r].status # commands[r].status =>
            <<commands[r].status, commands'[r].status>> \in
               {<<"pending", "sent">>, <<"sent", "completed">>,
                <<"sent", "pending">>, <<"sent", "failed">>}]_vars

\* C5: `completed` and `failed` are absorbing: no step changes the status of
\* such a row or returns it in a poll response again.
C5_TerminalAbsorbing ==
    [][\A r \in Rows :
         StatusOf(r) \in {"completed", "failed"} =>
            /\ r \in DOMAIN commands' => commands'[r].status = StatusOf(r)
            /\ r \notin Returned]_vars

\* C6: per terminal, polls return commands in enqueue order: a row enqueued
\* earlier (lower autoincrement id) is never returned after a later one.
C6_EnqueueOrder ==
    \A i, j \in 1..Len(delivered) :
        (/\ i < j
         /\ delivered[i] \in Rows /\ delivered[j] \in Rows
         /\ commands[delivered[i]].device_serial = commands[delivered[j]].device_serial)
            => delivered[i] <= delivered[j]

\* C7: one poll request takes at most one row from `pending` to `sent` and
\* returns at most one command.
C7_OnePerPoll ==
    [][/\ Cardinality(PendingToSent) <= 1
       /\ Len(delivered') <= Len(delivered) + 1]_vars

\* C7, its case: a poll has returned a command, whose row is `sent`, while
\* another command of the same terminal is still pending.
C7_Witness ==
    \E r, q \in Rows :
        /\ r # q
        /\ commands[r].device_serial = commands[q].device_serial
        /\ StatusOf(r) = "sent" /\ r \in WireIds
        /\ StatusOf(q) = "pending"

\* C8: every line of a reply body is reconciled: each row of the replying
\* terminal that a line names leaves `sent`.
C8_EveryLineReconciled ==
    [][\A sn \in Serials, body \in Bodies :
         processCommandReply(sn, body) =>
            \A i \in DOMAIN body : \A r \in RowsOf(LineId(body[i]), sn) :
               StatusOf(r) = "sent" => commands'[r].status # "sent"]_vars

\* the statement a step of the mysql reply handler runs is for line `line` of
\* a request of terminal `sn`
ReplyStatementFor(sn, line) ==
    \/ \E body \in Bodies : body[1] = line /\ devicecmd(sn, body)
    \/ /\ reply.pc # "idle" /\ reply.sn = sn /\ reply.body[1] = line
       /\ \/ markCommandCompleted
          \/ markCommandCompleted_retry
          \/ markCommandCompleted_requeue

\* C9: a reply whose (command id, replying serial) matches no row changes the
\* status of no row.
C9_UnmatchedReplyChangesNothing ==
    [][\A sn \in Serials, line \in Lines(WireIds \cup {UnknownId}) :
         (ReplyStatementFor(sn, line) /\ RowsOf(LineId(line), sn) = {}) =>
            \A r \in Rows \cap DOMAIN commands' :
               commands'[r].status = commands[r].status]_vars

\* C10: every row that has been dequeued eventually terminates: a `sent` row
\* becomes `completed` or `failed`, or is removed by the sweeper, even when its
\* reply never arrives.
C10_SentEventuallyEnds ==
    \A r \in 1..MaxCmdsMysql :
        (r \in Rows /\ StatusOf(r) = "sent")
            ~> (r \notin Rows \/ StatusOf(r) \in {"completed", "failed"})

MaxUploads == 1
\* record lines in one upload body
MaxRecords == 2

\* getActiveDevices(minutesThreshold = 10), in seconds
ActiveWindow == 600

Terminals == Serials \cup {"A03"}

\* a JavaScript undefined; string concatenation writes it as "undefined"
Undefined == "undefined"

\* a record line: its tag, and after the tag its separated parts, each given
\* as the pieces that part.split('=') yields
Rec(tag, parts) == [tag |-> tag, parts |-> parts]

\* a base64 template
Template == "QUJD"

UserRecord == Rec("USER", << <<"PIN", "1">>, <<"Name", "Ann">>, <<"Pri", "0">> >>)
\* a USER line without its PIN
NoPinRecord == Rec("USER", << <<"Name", "Ann">>, <<"Pri", "0">> >>)
\* a base64 template that ends in padding, as part.split('=') cuts it
PaddedTemplate == <<"QUJDRA", "", "">>

FpLine(fid, valid, tmp) ==
    Rec("FP", << <<"PIN", "1">>, <<"FID", fid>>, <<"Size", "4">>,
                 <<"Valid", valid>>, <<"TMP">> \o tmp >>)
FpRecord(valid) == FpLine("0", valid, <<Template>>)
\* a fingerprint in slot 12
FpSlotRecord == FpLine("12", "1", <<Template>>)
\* a fingerprint line of a CRLF body: data.split('\n') leaves the CR on the
\* last field
FpCrlfRecord == FpLine("0", "1", <<"QUJD\r">>)
FpPaddedRecord == FpLine("0", "1", PaddedTemplate)
FaceRecord ==
    Rec("FACE", << <<"PIN", "1">>, <<"FID", "0">>, <<"SIZE", "4">>,
                   <<"VALID", "1">>, <<"TMP", Template>> >>)
FveinRecord ==
    Rec("FVEIN", << <<"Pin", "1">>, <<"FID", "0">>, <<"Index", "0">>,
                    <<"Size", "4">>, <<"Valid", "1">>, <<"Tmp", Template>> >>)
BiodataRecord(valid, tmp) ==
    Rec("BIODATA", << <<"Pin", "1">>, <<"No", "0">>, <<"Index", "0">>,
                      <<"Valid", valid>>, <<"Duress", "0">>, <<"Type", "1">>,
                      <<"MajorVer", "0">>, <<"MinorVer", "0">>, <<"Format", "ZK">>,
                      <<"Tmp">> \o tmp >>)
WorkcodeRecord == Rec("WORKCODE", << <<"PIN", "1">>, <<"CODE", "7">>, <<"NAME", "Day">> >>)
SmsRecord == Rec("SMS", << <<"MSG", "Hi">>, <<"TAG", "253">>, <<"UID", "1">>, <<"MIN", "5">> >>)
UserSmsRecord == Rec("USER_SMS", << <<"PIN", "1">>, <<"UID", "1">> >>)
IdcardRecord == Rec("IDCARD", << <<"PIN", "1">>, <<"IDNum", "9">> >>)
UserpicRecord == Rec("USERPIC", << <<"PIN", "1">>, <<"FileName", "1.jpg">>, <<"Content", Template>> >>)
BiophotoRecord == Rec("BIOPHOTO", << <<"PIN", "1">>, <<"Type", "9">>, <<"Content", Template>> >>)
ErrorlogRecord == Rec("ERRORLOG", << <<"ErrCode", "5">>, <<"ErrMsg", "bad">> >>)

\* the record lines terminals upload
Records ==
    {UserRecord, FpRecord("1"), FpRecord("0"), FaceRecord, FveinRecord,
     BiodataRecord("1", <<Template>>), BiodataRecord("1", <<"">>),
     WorkcodeRecord, SmsRecord, UserSmsRecord, IdcardRecord,
     UserpicRecord, BiophotoRecord, ErrorlogRecord, NoPinRecord,
     FpSlotRecord, FpCrlfRecord, FpPaddedRecord, BiodataRecord("1", PaddedTemplate)}

\* the record lines that OPERLOG bodies of several lines are made of
MixedRecords ==
    {UserRecord, FpRecord("1"), BiodataRecord("1", <<Template>>), SmsRecord, UserpicRecord,
     FpCrlfRecord}

\* parseKeyValueString / parseBiodataRecord: const [key, value] = part.split('=');
\* a part is kept if key is non-empty and value is not undefined; later wins
RECURSIVE parseKeyValueString(_)
parseKeyValueString(parts) ==
    IF parts = << >> THEN << >>
    ELSE LET part == parts[Len(parts)]
             front == parseKeyValueString(SubSeq(parts, 1, Len(parts) - 1))
         IN IF Len(part) >= 2 /\ part[1] # ""
            THEN [k \in DOMAIN front \cup {part[1]} |->
                     IF k = part[1] THEN part[2] ELSE front[k]]
            ELSE front

\* the prefixes parseOperationRecord knows
ParsedTags ==
    {"USER", "FP", "FACE", "FVEIN", "USERPIC", "WORKCODE", "SMS", "USER_SMS",
     "ERRORLOG", "BIODATA", "IDCARD"}

parseOperationRecord(record) ==
    IF record.tag \in ParsedTags
    THEN [type |-> record.tag, data |-> parseKeyValueString(record.parts)]
    ELSE [type |-> "UNKNOWN", data |-> << >>]

\* obj.key, undefined when the key is missing
Field(obj, key) == IF key \in DOMAIN obj THEN obj[key] ELSE Undefined

\* value || dflt
OrElse(value, dflt) == IF value \in {Undefined, ""} THEN dflt ELSE value

\* { key = dflt } = obj: the default replaces undefined only
Default(value, dflt) == IF value = Undefined THEN dflt ELSE value

\* parseInt(value) on the strings the records carry: a decimal string gives
\* its number, anything else NaN
ParseInt(value) ==
    IF value \in {"0", "1", "2", "3", "4", "5", "6", "7", "8", "9", "12", "253"}
    THEN value ELSE "NaN"

\* parseInt(value) || dflt: NaN and 0 are falsy
ParseIntOr(value, dflt) ==
    IF ParseInt(value) \in {"NaN", "0"} THEN dflt ELSE ParseInt(value)

\* /^[A-Za-z0-9+/]*={0,2}$/.test(template)
IsBase64_any(template) == TRUE

IsBase64(template) ==
    template \in {"", Template, "QUJDRA", "QUJDRA=", "QUJDRA==", "QUJDREVGR0hJSg"}

\* what a CommandManager.add* helper does: it either builds command data and
\* calls addCommand, or returns { success: false } without a command
Enqueue(data) == [add |-> TRUE, data |-> data]
Refuse == [add |-> FALSE, success |-> FALSE]
\* createSyncCommands branches that call no helper leave result = { success: true }
Nothing == [add |-> FALSE, success |-> TRUE]

addUser(userInfo) ==
    Enqueue(<< "DATA UPDATE USERINFO",
               <<"PIN", userInfo.pin>>, <<"Name", userInfo.name>>,
               <<"Pri", Default(userInfo.privilege, "0")>>,
               <<"Passwd", Default(userInfo.password, "")>>,
               <<"Card", Default(userInfo.card, "")>>,
               <<"Grp", Default(userInfo.groupId, "1")>>,
               <<"TZ", Default(userInfo.timeZone, "0000000000000000")>>,
               <<"Verify", Default(userInfo.verifyMode, "-1")>>,
               <<"ViceCard", Default(userInfo.viceCard, "")>> >>)

addBiodataTemplate(templateInfo) ==
    LET pin == templateInfo.pin
        type == templateInfo.type
        template == templateInfo.template
    IN IF pin \in {Undefined, ""} \/ type \in {Undefined, ""} \/ template \in {Undefined, ""}
       THEN Refuse
       ELSE IF ~IsBase64(template)
       THEN Refuse
       ELSE Enqueue(<< "DATA UPDATE BIODATA",
                       <<"Pin", pin>>,
                       <<"No", Default(templateInfo.no, "0")>>,
                       <<"Index", Default(templateInfo.index, "0")>>,
                       <<"Valid", Default(templateInfo.valid, "1")>>,
                       <<"Duress", Default(templateInfo.duress, "0")>>,
                       <<"Type", type>>,
                       <<"MajorVer", Default(templateInfo.majorVer, "0")>>,
                       <<"MinorVer", Default(templateInfo.minorVer, "0")>>,
                       <<"Format", Default(templateInfo.format, "ZK")>>,
                       <<"Tmp", template>> >>)

addWorkCode(workCodeInfo) ==
    Enqueue(<< "DATA UPDATE WORKCODE", <<"PIN", workCodeInfo.pin>>,
               <<"CODE", workCodeInfo.code>>, <<"NAME", workCodeInfo.name>> >>)

addShortMessage(messageInfo) ==
    Enqueue(<< "DATA UPDATE SMS", <<"MSG", messageInfo.msg>>, <<"TAG", messageInfo.tag>>,
               <<"UID", messageInfo.uid>>,
               <<"MIN", Default(messageInfo.minDuration, "0")>>,
               <<"StartTime", Default(messageInfo.startTime, "")>> >>)

addUserSMSAssociation(associationInfo) ==
    Enqueue(<< "DATA UPDATE USER_SMS", <<"PIN", associationInfo.pin>>,
               <<"UID", associationInfo.uid>> >>)

\* the branch of createSyncCommands for one parsed record
SyncCommandFor(parsed) ==
    LET d == parsed.data IN
    CASE parsed.type = "USER" ->
           addUser([pin |-> Field(d, "PIN"), name |-> Field(d, "Name"),
                    privilege |-> Field(d, "Pri"), password |-> Field(d, "Passwd"),
                    card |-> Field(d, "Card"), groupId |-> Field(d, "Grp"),
                    timeZone |-> Field(d, "TZ"), verifyMode |-> Field(d, "Verify"),
                    viceCard |-> Field(d, "ViceCard")])
      [] parsed.type = "FP" ->
           addBiodataTemplate(
               [pin |-> Field(d, "PIN"), no |-> ParseIntOr(Field(d, "FID"), "0"),
                index |-> "0", valid |-> ParseIntOr(Field(d, "Valid"), "1"),
                duress |-> "0", type |-> "1", majorVer |-> "0", minorVer |-> "0",
                format |-> "ZK", template |-> Field(d, "TMP")])
      [] parsed.type = "FACE" ->
           addBiodataTemplate(
               [pin |-> Field(d, "PIN"), no |-> ParseIntOr(Field(d, "FID"), "0"),
                index |-> "0",
                valid |-> ParseIntOr(OrElse(Field(d, "VALID"), Field(d, "Valid")), "1"),
                duress |-> "0", type |-> "2", majorVer |-> "0", minorVer |-> "0",
                format |-> "ZK", template |-> Field(d, "TMP")])
      [] parsed.type = "BIODATA" ->
           IF Field(d, "Tmp") \in {Undefined, ""}
           THEN Refuse
           ELSE addBiodataTemplate(
               [pin |-> Field(d, "Pin"), no |-> OrElse(Field(d, "No"), "0"),
                index |-> OrElse(Field(d, "Index"), "0"),
                valid |-> OrElse(Field(d, "Valid"), "1"),
                duress |-> OrElse(Field(d, "Duress"), "0"),
                type |-> Field(d, "Type"),
                majorVer |-> OrElse(Field(d, "MajorVer"), "0"),
                minorVer |-> OrElse(Field(d, "MinorVer"), "0"),
                format |-> OrElse(Field(d, "Format"), "0"),
                template |-> Field(d, "Tmp")])
      [] parsed.type = "FVEIN" ->
           addBiodataTemplate(
               [pin |-> Field(d, "Pin"), no |-> ParseIntOr(Field(d, "FID"), "0"),
                index |-> ParseIntOr(Field(d, "Index"), "0"),
                valid |-> ParseIntOr(Field(d, "Valid"), "1"),
                duress |-> "0", type |-> "7", majorVer |-> "0", minorVer |-> "0",
                format |-> "ZK", template |-> Field(d, "Tmp")])
      [] parsed.type = "USERPIC" -> Refuse
      [] parsed.type = "BIOPHOTO" -> Refuse
      [] parsed.type = "WORKCODE" ->
           addWorkCode([pin |-> Field(d, "PIN"), code |-> Field(d, "CODE"),
                        name |-> Field(d, "NAME")])
      [] parsed.type = "SMS" ->
           addShortMessage([uid |-> Field(d, "UID"), msg |-> Field(d, "MSG"),
                            tag |-> Field(d, "TAG"), minDuration |-> Field(d, "MIN"),
                            startTime |-> Field(d, "StartTime")])
      [] parsed.type = "USER_SMS" ->
           addUserSMSAssociation([pin |-> Field(d, "PIN"), uid |-> Field(d, "UID")])
      [] OTHER -> Nothing

\* syncBiodataToOtherDevices: the template info it builds from the parsed fields
BiodataSyncCommand(biodataFields) ==
    addBiodataTemplate(
        [pin |-> Field(biodataFields, "Pin"), no |-> OrElse(Field(biodataFields, "No"), "0"),
         index |-> OrElse(Field(biodataFields, "Index"), "0"),
         valid |-> OrElse(Field(biodataFields, "Valid"), "1"),
         duress |-> OrElse(Field(biodataFields, "Duress"), "0"),
         type |-> Field(biodataFields, "Type"),
         majorVer |-> OrElse(Field(biodataFields, "MajorVer"), "0"),
         minorVer |-> OrElse(Field(biodataFields, "MinorVer"), "0"),
         format |-> OrElse(Field(biodataFields, "Format"), "ZK"),
         template |-> Field(biodataFields, "Tmp")])

\* the table a process*Info method of DataProcessor stores a record in, and
\* the keys it requires; a BIOPHOTO line parses as UNKNOWN and is stored nowhere
StoreTable(tag) ==
    CASE tag = "USER" -> "users"
      [] tag = "FP" -> "fingerprint_templates"
      [] tag = "FACE" -> "face_templates"
      [] tag = "FVEIN" -> "finger_vein_templates"
      [] tag = "USERPIC" -> "user_photos"
      [] tag = "BIODATA" -> "bio_templates"
      [] tag = "IDCARD" -> "id_cards"
      [] tag = "WORKCODE" -> "work_codes"
      [] tag = "SMS" -> "short_messages"
      [] tag = "USER_SMS" -> "user_sms"
      [] tag = "ERRORLOG" -> "sync_log"
      [] OTHER -> "none"

StoreRequires(tag) ==
    CASE tag = "USER" -> {"PIN"}
      [] tag = "FP" -> {"PIN", "FID"}
      [] tag = "FACE" -> {"PIN", "FID"}
      [] tag = "FVEIN" -> {"Pin", "FID", "Index"}
      [] tag = "USERPIC" -> {"PIN"}
      [] tag = "BIODATA" -> {"Pin", "Type"}
      [] tag = "IDCARD" -> {"IDNum"}
      [] tag = "WORKCODE" -> {"PIN", "CODE"}
      [] tag = "SMS" -> {"UID", "MSG", "TAG"}
      [] tag = "USER_SMS" -> {"PIN", "UID"}
      [] tag = "ERRORLOG" -> {"ErrCode"}
      [] OTHER -> {}

\* the record passes the check at the head of its process*Info method
StoreAccepts(record) ==
    /\ StoreTable(record.tag) # "none"
    /\ \A k \in StoreRequires(record.tag) :
          Field(parseKeyValueString(record.parts), k) \notin {Undefined, ""}

\* what the handler writes, in order: commands, sync_log rows, stored records;
\* rec is the position of the record in the upload body
CmdEffect(target, data, rec) == [e |-> "cmd", target |-> target, data |-> data, rec |-> rec]
LogEffect(source, target, type, id, action, status, rec) ==
    [e |-> "log", rec |-> rec,
     row |-> [source_device |-> source, target_device |-> target, data_type |-> type,
              data_id |-> id, action |-> action, status |-> status]]
StoreEffect(table, key, rec) == [e |-> "store", table |-> table, key |-> key, rec |-> rec]

\* the key of a row in a table that has no UNIQUE constraint
NoKey == << >>

\* the values an INSERT OR REPLACE gives to the columns of the table's UNIQUE
\* constraint; the users table has none
StoreKey(serialNumber, record) ==
    LET d == parseKeyValueString(record.parts) IN
    CASE record.tag = "USER" -> NoKey
      [] record.tag \in {"FP", "FACE"} ->
            <<Field(d, "PIN"), ParseInt(Field(d, "FID")), serialNumber>>
      [] record.tag = "FVEIN" ->
            <<Field(d, "Pin"), ParseInt(Field(d, "FID")), ParseInt(Field(d, "Index")),
              serialNumber>>
      [] record.tag = "BIODATA" ->
            <<Field(d, "Pin"), OrElse(Field(d, "No"), "0"), OrElse(Field(d, "Index"), "0"),
              Field(d, "Type"), serialNumber>>
      [] record.tag = "USERPIC" -> <<Field(d, "PIN"), serialNumber>>
      [] record.tag = "IDCARD" -> <<Field(d, "IDNum"), serialNumber>>
      [] record.tag = "WORKCODE" -> <<Field(d, "PIN"), serialNumber>>
      [] record.tag = "SMS" -> <<ParseInt(Field(d, "UID")), serialNumber>>
      [] record.tag = "USER_SMS" ->
            <<Field(d, "PIN"), ParseInt(Field(d, "UID")), serialNumber>>
      [] OTHER -> NoKey

\* INSERT OR REPLACE: the rows that conflict with the new row on the UNIQUE
\* constraint are deleted, then the new row is inserted; up and rec are
\* history: the upload and the record line that wrote the row
InsertOrReplace(rows, effect, up) ==
    {r \in rows : ~(/\ r.table = effect.table
                    /\ effect.key # NoKey
                    /\ r.key = effect.key)}
        \cup {[table |-> effect.table, key |-> effect.key, up |-> up, rec |-> effect.rec]}

RECURSIVE ApplyStores(_, _, _)
ApplyStores(rows, stores, up) ==
    IF stores = << >> THEN rows
    ELSE ApplyStores(InsertOrReplace(rows, Head(stores), up), Tail(stores), up)

\* getAllDevices: SELECT * FROM devices ORDER BY created_at DESC
RECURSIVE Reverse(_)
Reverse(seq) == IF seq = << >> THEN << >> ELSE Reverse(Tail(seq)) \o <<Head(seq)>>

getAllDevices == Reverse(devices)

\* the device list without the filter on the source
otherDevices_unfiltered(allDevices, sourceDevice) ==
    [i \in 1..Len(allDevices) |-> allDevices[i].serial_number]

\* allDevices.filter(device => device.serial_number !== sourceDevice)
RECURSIVE otherDevices(_, _)
otherDevices(allDevices, sourceDevice) ==
    IF allDevices = << >> THEN << >>
    ELSE (IF Head(allDevices).serial_number # sourceDevice
          THEN <<Head(allDevices).serial_number>> ELSE << >>)
         \o otherDevices(Tail(allDevices), sourceDevice)

\* syncBiodataToOtherDevices: one addBiodataTemplate per other device, each in
\* its own try/catch; failing is the set of terminals whose INSERT throws
RECURSIVE syncBiodataToOtherDevices(_, _, _, _)
syncBiodataToOtherDevices(targets, biodataFields, rec, failing) ==
    IF targets = << >> THEN << >>
    ELSE LET result == BiodataSyncCommand(biodataFields)
         IN (IF result.add /\ Head(targets) \notin failing
             THEN <<CmdEffect(Head(targets), result.data, rec)>> ELSE << >>)
            \o syncBiodataToOtherDevices(Tail(targets), biodataFields, rec, failing)

\* the process*Info method for one record: store it; processBioTemplate also
\* syncs the template to the other devices
processRecord(serialNumber, record, rec, targets, failing) ==
    IF ~StoreAccepts(record) THEN << >>
    ELSE IF record.tag = "ERRORLOG"
    THEN <<LogEffect(serialNumber, "null", "ERRORLOG",
                     Field(parseKeyValueString(record.parts), "ErrCode"),
                     <<OrElse(Field(parseKeyValueString(record.parts), "DataOrigin"), "unknown"),
                       OrElse(Field(parseKeyValueString(record.parts), "ErrMsg"), "no message")>>,
                     "logged", rec)>>
    ELSE IF record.tag = "BIODATA"
    THEN <<StoreEffect("bio_templates", StoreKey(serialNumber, record), rec)>>
         \o syncBiodataToOtherDevices(targets, parseKeyValueString(record.parts), rec, failing)
    ELSE <<StoreEffect(StoreTable(record.tag), StoreKey(serialNumber, record), rec)>>

RECURSIVE processRecords(_, _, _, _, _)
processRecords(serialNumber, records, rec, targets, failing) ==
    IF rec > Len(records) THEN << >>
    ELSE processRecord(serialNumber, records[rec], rec, targets, failing)
         \o processRecords(serialNumber, records, rec + 1, targets, failing)

\* parsed.data.PIN || parsed.data.Pin || parsed.data.IDNum || 'unknown'
SyncLogId(data) ==
    OrElse(Field(data, "PIN"), OrElse(Field(data, "Pin"), OrElse(Field(data, "IDNum"), "unknown")))

\* createSyncCommands: for each record the command, then the sync_log row; a
\* throw of addCommand leaves the loop through the method's catch
RECURSIVE createSyncCommands(_, _, _, _, _)
createSyncCommands(targetDevice, sourceDevice, records, rec, failing) ==
    IF rec > Len(records) THEN << >>
    ELSE LET parsed == parseOperationRecord(records[rec])
             result == SyncCommandFor(parsed)
         IN IF result.add /\ targetDevice \in failing THEN << >>
            ELSE (IF result.add THEN <<CmdEffect(targetDevice, result.data, rec)>> ELSE << >>)
                 \o <<LogEffect(sourceDevice, targetDevice, parsed.type, SyncLogId(parsed.data),
                                "sync",
                                IF result.add \/ result.success THEN "queued" ELSE "skipped",
                                rec)>>
                 \o createSyncCommands(targetDevice, sourceDevice, records, rec + 1, failing)

RECURSIVE syncDataToOtherDevices(_, _, _, _)
syncDataToOtherDevices(targets, sourceDevice, records, failing) ==
    IF targets = << >> THEN << >>
    ELSE createSyncCommands(Head(targets), sourceDevice, records, 1, failing)
         \o syncDataToOtherDevices(Tail(targets), sourceDevice, records, failing)

\* the upload tables handleDataUpload routes, and those whose process* method
\* ends with syncDataToOtherDevices
Tables == {"OPERLOG", "BIODATA", "IDCARD", "FVEIN", "WORKCODE", "SMS", "USER_SMS", "ERRORLOG"}
SyncingTables == {"OPERLOG", "BIODATA", "IDCARD", "FVEIN", "WORKCODE"}

\* everything one data upload writes, in order
UploadEffects(serialNumber, table, records, failing) ==
    LET targets == otherDevices(getAllDevices, serialNumber)
    IN processRecords(serialNumber, records, 1, targets, failing)
       \o (IF table \in SyncingTables
           THEN syncDataToOtherDevices(targets, serialNumber, records, failing)
           ELSE << >>)

\* the bodies a terminal uploads to a table: OPERLOG carries any mix of record
\* lines, every other table the lines of its own tag
UploadBodies(table) ==
    LET lines == IF table = "OPERLOG" THEN Records ELSE {r \in Records : r.tag = table}
        mixed == IF table = "OPERLOG" THEN MixedRecords ELSE lines
    IN {<<r>> : r \in lines} \cup UNION {[1..n -> mixed] : n \in 2..MaxRecords}

\* the terminals of the devices table
Registered == {devices[i].serial_number : i \in DOMAIN devices}

\* the terminals whose INSERT INTO commands throws during one upload: none, or
\* one of the source's peers
Failings(serialNumber) == {{}} \cup {{t} : t \in Registered \ {serialNumber}}

SelectEffects(effects, kind) == SelectSeq(effects, LAMBDA x : x.e = kind)

\* a row of commands written by the upload; up and rec are history: the upload
\* and the record line that produced the row
SyncRow(effect, id) ==
    CommandRow(effect.target, id)
        @@ [command_type |-> "DATA", command_data |-> effect.data,
            up |-> Len(upload) + 1, rec |-> effect.rec]

TerminalOrder == <<"A01", "A02", "A03">>
TerminalRank(t) == CHOOSE i \in DOMAIN TerminalOrder : TerminalOrder[i] = t

\* terminals are interchangeable: a new one registers after those below it
FirstUnregistered(serialNumber) ==
    \A t \in Terminals :
        (/\ TerminalRank(t) < TerminalRank(serialNumber)
         /\ \A i \in DOMAIN devices : devices[i].serial_number # serialNumber)
            => \E i \in DOMAIN devices : devices[i].serial_number = t

\* ZKPushServer.handleInit: registerDevice inserts the terminal or refreshes
\* its last_seen
registerDevice(serialNumber) ==
    /\ Len(upload) < MaxUploads
    /\ FirstUnregistered(serialNumber)
    /\ IF \E i \in DOMAIN devices : devices[i].serial_number = serialNumber
       THEN devices' = [i \in DOMAIN devices |->
                           IF devices[i].serial_number = serialNumber
                           THEN [devices[i] EXCEPT !.last_seen = now]
                           ELSE devices[i]]
       ELSE devices' = Append(devices, [serial_number |-> serialNumber,
                                        last_seen |-> now, created_at |-> now])
    /\ devices' # devices
    /\ UNCHANGED <<vars, sync_log, stored, upload, responses, ops, tx>>

\* the result of one record: a process*Info method succeeds when the record
\* passes its check; processOperationRecord also succeeds, without storing, on
\* a line whose type it has no branch for
RecordSuccess(table, record) ==
    \/ StoreAccepts(record)
    \/ table = "OPERLOG" /\ StoreTable(record.tag) = "none"

\* processedCount of processOperationLog and of the other process* methods
processedCount(table, records) ==
    Cardinality({i \in DOMAIN records : RecordSuccess(table, records[i])})

\* res.send(`OK: ${result.count || 1}`): the N of the response
ResponseCount(count) == IF count = 0 THEN 1 ELSE count

\* ZKPushServer.handleDataUpload: what one POST /iclock/cdata does
DataUpload(serialNumber, table, records, failing) ==
    /\ LET effects == UploadEffects(serialNumber, table, records, failing)
           cmds == SelectEffects(effects, "cmd")
           logs == SelectEffects(effects, "log")
           stores == SelectEffects(effects, "store")
       IN /\ commands' = [r \in Rows \cup (nextId..(nextId + Len(cmds) - 1)) |->
                             IF r \in Rows THEN commands[r]
                             ELSE SyncRow(cmds[r - nextId + 1], r)]
          /\ nextId' = nextId + Len(cmds)
          /\ sync_log' = sync_log \o
                [i \in 1..Len(logs) |->
                    logs[i].row @@ [up |-> Len(upload) + 1, rec |-> logs[i].rec]]
          /\ stored' = ApplyStores(stored, stores, Len(upload) + 1)
    /\ upload' = Append(upload, [serialNumber |-> serialNumber, table |-> table,
                                 records |-> records, failing |-> failing,
                                 devices |-> devices, at |-> now,
                                 response |-> [status |-> 200,
                                               N |-> ResponseCount(processedCount(table, records))]])
    /\ UNCHANGED <<now, ticks, poll, reply, sweeper, delivered, acked, devices, responses, ops, tx>>

handleDataUpload(serialNumber, table, records, failing) ==
    /\ Len(upload) < MaxUploads
    /\ DataUpload(serialNumber, table, records, failing)

\* the sqlite build's upload pipeline
NextSync ==
    \/ \E sn \in Terminals : registerDevice(sn)
    \/ \E sn \in Registered, table \in Tables :
          \E records \in UploadBodies(table), failing \in Failings(sn) :
             handleDataUpload(sn, table, records, failing)
    \/ Len(upload) < MaxUploads /\ Tick(ActiveWindow + 1) /\ UNCHANGED syncVars

SpecSync == Init /\ [][NextSync]_<<vars, syncVars>>

(***************************************************************************)
(* Uploads handled while the store rejects every statement.                *)
(***************************************************************************)
\* the message of the error the store raises
StoreErrorText == "SQLITE_ERROR"

\* a body of table=options
OptionsRecord == Rec("OPTIONS", << <<"FingerFunOn", "1">> >>)

\* the result of the process* method when every statement of the store
\* throws: processOptions' catch returns the error's message; a process*Info
\* method catches the error of its INSERT and returns { success: false }, so
\* only the lines that reach no statement are counted
processData_storeError(table, records) ==
    IF table = "options"
    THEN [success |-> FALSE, message |-> StoreErrorText]
    ELSE [success |-> TRUE,
          count |-> Cardinality({i \in DOMAIN records :
                                    table = "OPERLOG" /\ StoreTable(records[i].tag) = "none"})]

\* the end of handleDataUpload: res.send(`OK: ${result.count || 1}`), else
\* res.status(400).send(result.message)
UploadResponse(result) ==
    IF result.success
    THEN [status |-> 200, text |-> "OK", N |-> ResponseCount(result.count)]
    ELSE [status |-> 400, text |-> result.message, N |-> 0]

\* ZKPushServer.handleDataUpload while the store is failing: nothing is
\* written
handleDataUpload_storeError(serialNumber, table, records) ==
    /\ Len(upload) < MaxUploads
    /\ upload' = Append(upload, [serialNumber |-> serialNumber, table |-> table,
                                 records |-> records, failing |-> {},
                                 devices |-> devices, at |-> now,
                                 storeError |-> TRUE,
                                 response |-> UploadResponse(
                                                 processData_storeError(table, records))])
    /\ UNCHANGED <<vars, devices, sync_log, stored, responses, ops, tx>>

\* one-line bodies of a table
LineBodies(table) ==
    IF table = "options" THEN {<<OptionsRecord>>}
    ELSE {<<r>> : r \in {x \in Records : table = "OPERLOG" \/ x.tag = table}}

NextFault ==
    \/ \E sn \in Terminals : registerDevice(sn)
    \/ \E sn \in Registered, table \in Tables :
          \E records \in LineBodies(table) : handleDataUpload(sn, table, records, {})
    \/ \E sn \in Registered, table \in Tables \cup {"options"} :
          \E records \in LineBodies(table) :
             handleDataUpload_storeError(sn, table, records)

SpecFault == Init /\ [][NextFault]_<<vars, syncVars>>

(***************************************************************************)
(* The reply endpoint of the sqlite build with its responses.              *)
(***************************************************************************)
\* replies answered over a run
MaxReplies == 2

\* a handler that answers a failure report with an error
ReplyResponse_byReturn(parsed) ==
    IF "Return" \in DOMAIN parsed /\ parsed["Return"] # "0"
    THEN [status |-> 500, text |-> "Internal server error"]
    ELSE [status |-> 200, text |-> "OK"]

\* handleCommandReply after processCommandReply has returned: res.send('OK'),
\* whatever the parsed reply holds
ReplyResponse(parsed) == [status |-> 200, text |-> "OK"]

\* ZKPushServer.handleCommandReply: POST /iclock/devicecmd
handleCommandReply(sn, body) ==
    /\ Len(responses) < MaxReplies
    /\ processCommandReply(sn, body)
    /\ responses' = Append(responses,
                           [sn |-> sn, body |-> body,
                            response |-> ReplyResponse(parseCommandReply(body))])
    /\ UNCHANGED <<devices, sync_log, stored, upload, ops, tx>>

NextReply ==
    \/ \E sn \in Serials : addCommand(sn) /\ UNCHANGED syncVars
    \/ \E p \in Pollers, sn \in Serials : getNextCommand(p, sn) /\ UNCHANGED syncVars
    \/ \E p \in Pollers : getNextCommand_update(p) /\ UNCHANGED syncVars
    \/ \E sn \in Serials, body \in Bodies : handleCommandReply(sn, body)

SpecReply == Init /\ [][NextReply]_<<vars, syncVars>>

(***************************************************************************)
(* The repair pass of the poll response.  A command string is a sequence   *)
(* of tokens: the command prefix, words, "=", and the separators " " and   *)
(* "\t".  The value of a key in the structured command data of the add*    *)
(* helpers is one word, or no token when it is the empty string.           *)
(***************************************************************************)
HT == "\t"
SP == " "
EQ == "="
WhiteSpace == {SP, HT}

\* the words made of digits only
DigitWords == {"0", "1", "2", "3", "4", "5", "6", "7", "8", "9", "12", "13"}

\* [A-Za-z_]: the words made of letters only
IsLetters(token) == token \notin WhiteSpace \cup {EQ} \cup DigitWords

\* the 'i' flag of the patterns: a key in lower case matches its name
Fold(token) ==
    CASE token = "pin" -> "Pin"
      [] token = "tmp" -> "Tmp"
      [] OTHER -> token

\* the string a helper hands to addCommand: prefix + ' ' + key=value pairs
\* joined by '\t'
RECURSIVE RenderFields(_, _)
RenderFields(data, i) ==
    IF i > Len(data) THEN << >>
    ELSE (IF i > 2 THEN <<HT>> ELSE << >>)
         \o <<data[i][1], EQ>>
         \o (IF data[i][2] = "" THEN << >> ELSE <<data[i][2]>>)
         \o RenderFields(data, i + 1)

Render(data) == <<data[1], SP>> \o RenderFields(data, 2)

\* command_data of a row as the string the column holds
CommandText(row) ==
    IF "command_text" \in DOMAIN row THEN row.command_text ELSE Render(row.command_data)

\* the positions where `name=` occurs in the string
Occurrences(name, str) ==
    {i \in 1..(Len(str) - 1) : Fold(str[i]) = name /\ str[i + 1] = EQ}

Least(S) == CHOOSE i \in S : \A j \in S : i <= j

\* ([^\s\t]+) from position i: the run of tokens up to the next white space
NonSpaceRun(str, i) ==
    LET stops == {j \in i..Len(str) : str[j] \in WhiteSpace}
    IN SubSeq(str, i, IF stops = {} THEN Len(str) ELSE Least(stops) - 1)

\* ([^A-Za-z_=]+) from position i: the run of tokens up to the next letter or '='
NonLetterRun(str, i) ==
    LET stops == {j \in i..Len(str) : IsLetters(str[j]) \/ str[j] = EQ}
    IN SubSeq(str, i, IF stops = {} THEN Len(str) ELSE Least(stops) - 1)

\* (?=[A-Za-z_]+=|$) at position j
KeyOrEndAt(str, j) ==
    \/ j > Len(str)
    \/ \E m \in j..(Len(str) - 1) :
          /\ \A x \in j..m : IsLetters(str[x])
          /\ str[m + 1] = EQ

NoMatch == [found |-> FALSE, value |-> << >>]
Match(value) == [found |-> TRUE, value |-> value]

\* extractParamImproved: name=([^\s\t]+), else
\* name=([^A-Za-z_=]+)(?=[A-Za-z_]+=|$); each pattern takes its leftmost match
extractParamImproved(name, str) ==
    LET first == {i \in Occurrences(name, str) : NonSpaceRun(str, i + 2) # << >>}
        second == {i \in Occurrences(name, str) :
                      /\ NonLetterRun(str, i + 2) # << >>
                      /\ KeyOrEndAt(str, i + 2 + Len(NonLetterRun(str, i + 2)))}
    IN IF first # {} THEN Match(NonSpaceRun(str, Least(first) + 2))
       ELSE IF second # {} THEN Match(NonLetterRun(str, Least(second) + 2))
       ELSE NoMatch

\* extractTmp: /Tmp=(.*)$/i, everything after the leftmost Tmp=
extractTmp(str) ==
    IF Occurrences("Tmp", str) = {} THEN NoMatch
    ELSE Match(SubSeq(str, Least(Occurrences("Tmp", str)) + 2, Len(str)))

orderedParams ==
    <<"Pin", "No", "Index", "Valid", "Duress", "Type", "MajorVer", "MinorVer",
      "Format", "Tmp">>

\* orderedParams.filter(found).map(param => param + '=' + value).join('\t')
RECURSIVE rebuiltParams(_, _, _)
rebuiltParams(str, i, started) ==
    IF i > Len(orderedParams) THEN << >>
    ELSE LET m == IF orderedParams[i] = "Tmp" THEN extractTmp(str)
                  ELSE extractParamImproved(orderedParams[i], str)
         IN IF m.found
            THEN (IF started THEN <<HT>> ELSE << >>)
                 \o <<orderedParams[i], EQ>> \o m.value
                 \o rebuiltParams(str, i + 1, TRUE)
            ELSE rebuiltParams(str, i + 1, started)

\* CommandManager.validateBiodataCommand
validateBiodataCommand(commandData) ==
    IF Len(commandData) >= 2 /\ commandData[1] = "DATA UPDATE BIODATA" /\ commandData[2] = SP
    THEN <<"DATA UPDATE BIODATA", SP>>
         \o rebuiltParams(SubSeq(commandData, 3, Len(commandData)), 1, FALSE)
    ELSE commandData

\* the commands validateAndFixTabs repairs, of those the model enqueues
tabCommands ==
    {"DATA UPDATE BIODATA", "DATA UPDATE WORKCODE", "DATA UPDATE SMS",
     "DATA UPDATE USER_SMS", "DATA UPDATE IDCARD"}

\* parametersString.replace(/\s+([A-Za-z_]+)=/g, '\t$1=')
fixTabs(str) ==
    [i \in DOMAIN str |->
        IF /\ i > 2
           /\ str[i] \in WhiteSpace
           /\ i + 2 <= Len(str)
           /\ IsLetters(str[i + 1])
           /\ str[i + 2] = EQ
        THEN HT ELSE str[i]]

\* CommandManager.validateAndFixTabs
validateAndFixTabs(commandData) ==
    IF commandData = << >> \/ commandData[1] \notin tabCommands THEN commandData
    ELSE IF commandData[1] = "DATA UPDATE BIODATA" THEN validateBiodataCommand(commandData)
    ELSE IF EQ \in {commandData[i] : i \in 3..Len(commandData)} THEN fixTabs(commandData)
    ELSE commandData

\* CommandManager.formatCommand: 'C:' + command_id + ':' + correctedCommandData
formatCommand(command) ==
    <<"C:", command.command_id, ":">> \o validateAndFixTabs(CommandText(command))

\* command strings handed to addCommand as they are
RawBiodata(params) == <<"DATA UPDATE BIODATA", SP>> \o params

RawCommands ==
    { \* the ten fields separated by spaces
      RawBiodata(<<"Pin", EQ, "1", SP, "No", EQ, "0", SP, "Index", EQ, "0", SP,
                   "Valid", EQ, "1", SP, "Duress", EQ, "0", SP, "Type", EQ, "1", SP,
                   "MajorVer", EQ, "0", SP, "MinorVer", EQ, "0", SP,
                   "Format", EQ, "ZK", SP, "Tmp", EQ, "QUJD">>),
      \* a padded template, keys in lower case
      RawBiodata(<<"pin", EQ, "1", SP, "Type", EQ, "1", SP, "tmp", EQ, "QUJDRA", EQ, EQ>>),
      \* the template first
      RawBiodata(<<"Tmp", EQ, "QUJD", SP, "Pin", EQ, "1", SP, "Type", EQ, "1">>),
      \* an empty value
      RawBiodata(<<"Pin", EQ, "1", HT, "No", EQ, HT, "Type", EQ, "1", HT, "Tmp", EQ, "QUJD">>),
      \* two parameters without a separator
      RawBiodata(<<"Pin", EQ, "1", SP, "Index", EQ, "13", "Valid", EQ, "1", SP,
                   "Tmp", EQ, "QUJD">>),
      <<"DATA UPDATE WORKCODE", SP, "PIN", EQ, "1", SP, "CODE", EQ, "7">>,
      <<"DATA UPDATE USERINFO", SP, "PIN", EQ, "1", SP, "Name", EQ, "Ann">> }

\* rows in the table when the last raw string or upload arrives
MaxRawCmds == 1

\* CommandManager.addCommand with the string of a caller: the INSERT stores
\* commandData as it is
addRawCommand(sn, commandData) ==
    /\ nextId <= MaxRawCmds
    /\ commands' = [r \in Rows \cup {nextId} |->
                      IF r = nextId
                      THEN CommandRow(sn, nextId)
                              @@ [command_type |-> "DATA", command_text |-> commandData]
                      ELSE commands[r]]
    /\ nextId' = nextId + 1
    /\ UNCHANGED <<now, ticks, poll, reply, sweeper, delivered, acked>>
    /\ UNCHANGED syncVars

\* the template lines uploaded next to the raw commands
FormatRecords == {FpRecord("1"), FpPaddedRecord, BiodataRecord("1", PaddedTemplate)}

\* the sqlite build: commands from operators and from the fan-out, and polls
NextFormat ==
    \/ \E sn \in Terminals : registerDevice(sn)
    \/ \E sn \in Serials, commandData \in RawCommands : addRawCommand(sn, commandData)
    \/ \E sn \in Registered, record \in FormatRecords :
          \E table \in {"OPERLOG", record.tag} \cap Tables :
             /\ nextId <= MaxRawCmds
             /\ handleDataUpload(sn, table, <<record>>, {})
    \/ \E p \in Pollers, sn \in Serials : getNextCommand(p, sn) /\ UNCHANGED syncVars
    \/ \E p \in Pollers : getNextCommand_update(p) /\ UNCHANGED syncVars

SpecFormat == Init /\ [][NextFormat]_<<vars, syncVars>>

\* the store under repeated uploads: the same record lines uploaded again, by
\* the same terminal or by another one
MaxStoreUploads == 2

StoreRecords == {UserRecord, FpRecord("1"), BiodataRecord("1", <<Template>>)}

NextStore ==
    \/ \E sn \in Terminals : registerDevice(sn)
    \/ \E sn \in Registered, record \in StoreRecords :
          \E table \in {"OPERLOG", record.tag} \cap Tables :
             /\ Len(upload) < MaxStoreUploads
             /\ DataUpload(sn, table, <<record>>, {})

SpecStore == Init /\ [][NextStore]_<<vars, syncVars>>

(***************************************************************************)
(* The mysql build: app.post('/iclock/cdata') hands each line of an upload  *)
(* to a handle*Data function, which stores it and queues one command for    *)
(* every other online terminal through queueCommandForOtherDevices.         *)
(***************************************************************************)

\* the periodic status update marks a terminal offline after 5 minutes
OfflineAfter == 300

\* parseZKData: a part with an '=' gives data[key] = value || ''
RECURSIVE parseZKData(_)
parseZKData(parts) ==
    IF parts = << >> THEN << >>
    ELSE LET part == parts[Len(parts)]
             front == parseZKData(SubSeq(parts, 1, Len(parts) - 1))
         IN IF Len(part) >= 2
            THEN [k \in DOMAIN front \cup {part[1]} |->
                     IF k = part[1] THEN part[2] ELSE front[k]]
            ELSE front

\* the line prefixes handleOperationLog and parseAndHandleData dispatch on
HandledTags == {"USER", "FP", "FACE", "BIODATA"}

\* the check at the head of handleUserData, handleFingerprintData,
\* handleFaceData and handleBioData
HandlerAccepts(record) ==
    LET d == parseZKData(record.parts) IN
    CASE record.tag = "USER" -> Field(d, "PIN") \notin {Undefined, ""}
      [] record.tag \in {"FP", "FACE"} ->
            Field(d, "PIN") \notin {Undefined, ""} /\ Field(d, "FID") # Undefined
      [] record.tag = "BIODATA" ->
            Field(d, "Pin") \notin {Undefined, ""} /\ Field(d, "Type") # Undefined
      [] OTHER -> FALSE

HandlerTable(tag) ==
    CASE tag = "USER" -> "users"
      [] tag = "FP" -> "fingerprint_templates"
      [] tag = "FACE" -> "face_templates"
      [] tag = "BIODATA" -> "biometric_templates"
      [] OTHER -> "none"

\* the values INSERT ... ON DUPLICATE KEY UPDATE gives to the columns of the
\* table's UNIQUE key
HandlerKey(record) ==
    LET d == parseZKData(record.parts) IN
    CASE record.tag = "USER" -> <<Field(d, "PIN")>>
      [] record.tag \in {"FP", "FACE"} -> <<Field(d, "PIN"), ParseInt(Field(d, "FID"))>>
      [] OTHER -> <<Field(d, "Pin"), ParseInt(Field(d, "Type")),
                    ParseIntOr(Field(d, "No"), "0"), ParseIntOr(Field(d, "Index"), "0")>>

\* the command type and data sync*ToOtherDevices builds for a handled line
syncUserToOtherDevices(userData) ==
    [type |-> "DATA_UPDATE_USER",
     data |-> << "DATA UPDATE USERINFO",
                 <<"PIN", Field(userData, "PIN")>>,
                 <<"Name", OrElse(Field(userData, "Name"), "")>>,
                 <<"Pri", OrElse(Field(userData, "Pri"), "0")>>,
                 <<"Passwd", OrElse(Field(userData, "Passwd"), "")>>,
                 <<"Card", OrElse(Field(userData, "Card"), "")>>,
                 <<"Grp", OrElse(Field(userData, "Grp"), "1")>>,
                 <<"TZ", OrElse(Field(userData, "TZ"), "0000000000000000")>>,
                 <<"Verify", OrElse(Field(userData, "Verify"), "-1")>>,
                 <<"ViceCard", OrElse(Field(userData, "ViceCard"), "")>> >>]

syncFingerprintToOtherDevices(fpData) ==
    [type |-> "DATA_UPDATE_FINGERPRINT",
     data |-> << "DATA UPDATE FINGERTMP",
                 <<"PIN", Field(fpData, "PIN")>>,
                 <<"FID", Field(fpData, "FID")>>,
                 <<"Size", OrElse(Field(fpData, "Size"), "0")>>,
                 <<"Valid", OrElse(Field(fpData, "Valid"), "1")>>,
                 <<"TMP", OrElse(Field(fpData, "TMP"), "")>> >>]

syncFaceToOtherDevices(faceData) ==
    [type |-> "DATA_UPDATE_FACE",
     data |-> << "DATA UPDATE FACE",
                 <<"PIN", Field(faceData, "PIN")>>,
                 <<"FID", Field(faceData, "FID")>>,
                 <<"Valid", OrElse(Field(faceData, "VALID"), "1")>>,
                 <<"Size", OrElse(Field(faceData, "SIZE"), "0")>>,
                 <<"TMP", OrElse(Field(faceData, "TMP"), "")>> >>]

syncBioDataToOtherDevices(bioData) ==
    [type |-> "DATA_UPDATE_BIODATA",
     data |-> << "DATA UPDATE BIODATA",
                 <<"Pin", Field(bioData, "Pin")>>,
                 <<"No", OrElse(Field(bioData, "No"), "0")>>,
                 <<"Index", OrElse(Field(bioData, "Index"), "0")>>,
                 <<"Valid", OrElse(Field(bioData, "Valid"), "1")>>,
                 <<"Duress", OrElse(Field(bioData, "Duress"), "0")>>,
                 <<"Type", Field(bioData, "Type")>>,
                 <<"MajorVer", OrElse(Field(bioData, "MajorVer"), "0")>>,
                 <<"MinorVer", OrElse(Field(bioData, "MinorVer"), "0")>>,
                 <<"Format", OrElse(Field(bioData, "Format"), "0")>>,
                 <<"Tmp", OrElse(Field(bioData, "Tmp"), "")>> >>]

HandlerCommand(record) ==
    LET d == parseZKData(record.parts) IN
    CASE record.tag = "USER" -> syncUserToOtherDevices(d)
      [] record.tag = "FP" -> syncFingerprintToOtherDevices(d)
      [] record.tag = "FACE" -> syncFaceToOtherDevices(d)
      [] OTHER -> syncBioDataToOtherDevices(d)

\* SELECT serial_number FROM devices WHERE serial_number != ? AND status = 'online'
RECURSIVE onlineOthers(_, _)
onlineOthers(table, sourceDevice) ==
    IF table = << >> THEN << >>
    ELSE (IF Head(table).serial_number # sourceDevice /\ Head(table).status = "online"
          THEN <<Head(table).serial_number>> ELSE << >>)
         \o onlineOthers(Tail(table), sourceDevice)

\* queueCommandForOtherDevices: the INSERTs run in one loop inside one
\* try/catch, so the first INSERT that throws ends the loop
RECURSIVE queueCommandForOtherDevices(_, _, _, _)
queueCommandForOtherDevices(targets, command, rec, failing) ==
    IF targets = << >> THEN << >>
    ELSE IF Head(targets) \in failing THEN << >>
    ELSE <<CmdEffect(Head(targets), command.data, rec) @@ [type |-> command.type]>>
         \o queueCommandForOtherDevices(Tail(targets), command, rec, failing)

\* handleOperationLog / parseAndHandleData: each line with a handled prefix
\* goes to its handler; a handler that throws is caught per line
RECURSIVE handleLines(_, _, _, _)
handleLines(records, rec, targets, failing) ==
    IF rec > Len(records) THEN << >>
    ELSE (IF records[rec].tag \in HandledTags /\ HandlerAccepts(records[rec])
          THEN <<StoreEffect(HandlerTable(records[rec].tag), HandlerKey(records[rec]), rec)>>
               \o queueCommandForOtherDevices(targets, HandlerCommand(records[rec]),
                                              rec, failing)
          ELSE << >>)
         \o handleLines(records, rec + 1, targets, failing)

\* the values of table in POST /iclock/cdata: the two named cases that
\* process data, the skipped ATTLOG, and one that falls to the default case
CdataTables == {"OPERLOG", "BIODATA", "ATTLOG", "USERINFO"}

\* the record lines of the bodies posted to the mysql build
CdataRecords == {UserRecord, FpRecord("1"), FaceRecord, BiodataRecord("1", <<Template>>)}

\* case 'BIODATA' hands the whole body to handleBioData as one line
CdataBodies(table) ==
    IF table = "BIODATA" THEN {<<BiodataRecord("1", <<Template>>)>>}
    ELSE UNION {[1..n -> CdataRecords] : n \in 1..MaxRecords}

MysqlRow(effect, id) ==
    CommandRow(effect.target, id)
        @@ [command_type |-> effect.type, command_data |-> effect.data,
            up |-> Len(upload) + 1, rec |-> effect.rec]

\* app.get('/iclock/cdata'): INSERT INTO devices ... ON DUPLICATE KEY UPDATE
\* status = 'online', last_seen = NOW()
cdataRegister(serialNumber) ==
    /\ Len(upload) < MaxUploads
    /\ FirstUnregistered(serialNumber)
    /\ IF \E i \in DOMAIN devices : devices[i].serial_number = serialNumber
       THEN devices' = [i \in DOMAIN devices |->
                           IF devices[i].serial_number = serialNumber
                           THEN [devices[i] EXCEPT !.status = "online", !.last_seen = now]
                           ELSE devices[i]]
       ELSE devices' = Append(devices, [serial_number |-> serialNumber,
                                        status |-> "online", last_seen |-> now])
    /\ devices' # devices
    /\ UNCHANGED <<vars, sync_log, stored, upload, responses, ops, tx>>

\* app.post('/iclock/cdata')
cdataUpload(serialNumber, table, records, failing) ==
    /\ Len(upload) < MaxUploads
    /\ devices' = [i \in DOMAIN devices |->
                      IF devices[i].serial_number = serialNumber
                      THEN [devices[i] EXCEPT !.status = "online", !.last_seen = now]
                      ELSE devices[i]]
    /\ LET effects == IF table = "ATTLOG" THEN << >>
                      ELSE handleLines(records, 1, onlineOthers(devices', serialNumber),
                                       failing)
           cmds == SelectEffects(effects, "cmd")
           stores == SelectEffects(effects, "store")
       IN /\ commands' = [r \in Rows \cup (nextId..(nextId + Len(cmds) - 1)) |->
                             IF r \in Rows THEN commands[r]
                             ELSE MysqlRow(cmds[r - nextId + 1], r)]
          /\ nextId' = nextId + Len(cmds)
          /\ stored' = ApplyStores(stored, stores, Len(upload) + 1)
    /\ upload' = Append(upload, [serialNumber |-> serialNumber, table |-> table,
                                 records |-> records, failing |-> failing,
                                 devices |-> devices', at |-> now])
    /\ UNCHANGED <<now, ticks, poll, reply, sweeper, delivered, acked, sync_log, responses, ops, tx>>

\* setInterval(..., 60000): UPDATE devices SET status = 'offline'
\* WHERE last_seen < DATE_SUB(NOW(), INTERVAL 5 MINUTE) AND status = 'online'
updateDeviceStatus ==
    /\ Len(upload) < MaxUploads
    /\ devices' = [i \in DOMAIN devices |->
                      IF devices[i].last_seen < now - OfflineAfter
                         /\ devices[i].status = "online"
                      THEN [devices[i] EXCEPT !.status = "offline"]
                      ELSE devices[i]]
    /\ devices' # devices
    /\ UNCHANGED <<vars, sync_log, stored, upload, responses, ops, tx>>

NextCdata ==
    \/ \E sn \in Terminals : cdataRegister(sn)
    \/ \E sn \in Registered, table \in CdataTables :
          \E records \in CdataBodies(table), failing \in Failings(sn) :
             cdataUpload(sn, table, records, failing)
    \/ updateDeviceStatus
    \/ Len(upload) < MaxUploads /\ Tick(OfflineAfter + 1) /\ UNCHANGED syncVars

SpecCdata == Init /\ [][NextCdata]_<<vars, syncVars>>

(***************************************************************************)
(* Claims about the upload pipeline                                         *)
(***************************************************************************)

\* the tags whose records are synchronised to the other terminals
SyncableTags ==
    {"USER", "FP", "FACE", "FVEIN", "BIODATA", "WORKCODE", "SMS", "USER_SMS", "IDCARD"}

\* the terminals seen within the activity window when upload k was handled
ActiveAt(k) ==
    {upload[k].devices[i].serial_number : i \in
        {j \in DOMAIN upload[k].devices :
            upload[k].devices[j].last_seen >= upload[k].at - ActiveWindow}}

\* the active terminals other than the source of upload k
ActivePeers(k) == ActiveAt(k) \ {upload[k].serialNumber}

\* the rows of commands that record line i of upload k left on terminal t's queue
FanOutRows(k, i, t) ==
    {r \in Rows : /\ commands[r].up = k
                  /\ commands[r].rec = i
                  /\ commands[r].device_serial = t}

\* the sync_log rows that record line i of upload k left for terminal t
SyncLogRows(k, i, t) ==
    {j \in DOMAIN sync_log : /\ sync_log[j].up = k
                             /\ sync_log[j].rec = i
                             /\ sync_log[j].target_device = t
                             /\ sync_log[j].action = "sync"}

\* C12: for every uploaded record line with a syncable tag, once the upload
\* has been handled the sync log holds exactly one row per active peer, with
\* status queued or skipped, whichever upload table carried the line.
C12_OneSyncLogRowPerPeer ==
    \A k \in DOMAIN upload :
        upload[k].failing = {} =>
            \A i \in DOMAIN upload[k].records :
                upload[k].records[i].tag \in SyncableTags =>
                    \A t \in ActivePeers(k) :
                        /\ Cardinality(SyncLogRows(k, i, t)) = 1
                        /\ \A j \in SyncLogRows(k, i, t) :
                              sync_log[j].status \in {"queued", "skipped"}

\* C13: the fan-out of an upload from terminal S never enqueues a command on
\* S's own queue.
C13_NeverOwnQueue ==
    \A r \in Rows :
        "up" \in DOMAIN commands[r] =>
            commands[r].device_serial # upload[commands[r].up].serialNumber

\* C13, its case: an upload has been fanned out and left a command on the
\* queue of a terminal.
C13_Witness ==
    \E r \in Rows :
        /\ "up" \in DOMAIN commands[r]
        /\ commands[r].device_serial \in Registered \ {upload[commands[r].up].serialNumber}

\* C14: the fan-out enqueues commands only for terminals in the active set,
\* those last seen within the activity window when the device list was read.
C14_OnlyActiveTargets ==
    \A r \in Rows :
        "up" \in DOMAIN commands[r] =>
            commands[r].device_serial \in ActiveAt(commands[r].up)

\* the online terminals other than the source when upload k was handled
OnlinePeers(k) ==
    {upload[k].devices[i].serial_number : i \in
        {j \in DOMAIN upload[k].devices :
            /\ upload[k].devices[j].status = "online"
            /\ upload[k].devices[j].serial_number # upload[k].serialNumber}}

\* C15: when enqueuing fails for one peer, the fan-out still enqueues the
\* command for every other peer: each handled record line of an upload leaves
\* a command on the queue of every peer whose own INSERT did not fail.
C15_FailureSparesOtherPeers ==
    \A k \in DOMAIN upload :
        upload[k].table # "ATTLOG" =>
            \A i \in DOMAIN upload[k].records :
                (/\ upload[k].records[i].tag \in HandledTags
                 /\ HandlerAccepts(upload[k].records[i]))
                    => \A t \in OnlinePeers(k) \ upload[k].failing :
                          FanOutRows(k, i, t) # {}

\* C16: within one upload, the commands enqueued on a peer's queue are in the
\* order of the record lines in the upload body, for every mix of tags: a
\* command for an earlier line is never enqueued after one for a later line.
C16_BodyOrder ==
    \A k \in DOMAIN upload :
        upload[k].failing = {} =>
            \A r1, r2 \in Rows :
                (/\ commands[r1].up = k
                 /\ commands[r2].up = k
                 /\ commands[r1].device_serial = commands[r2].device_serial
                 /\ r1 < r2)
                    => commands[r1].rec <= commands[r2].rec

\* a template line carries a template
HasTemplate(record) ==
    LET d == parseKeyValueString(record.parts) IN
    /\ record.tag \in {"FP", "FACE"} => Field(d, "TMP") \notin {Undefined, ""}
    /\ record.tag \in {"FVEIN", "BIODATA"} => Field(d, "Tmp") \notin {Undefined, ""}

\* C17: every uploaded record line with a syncable tag that passes validation
\* (its required keys are present and, for a template line, the template) is
\* handed to the fan-out and leaves a command on the queue of every peer,
\* whether it came in an OPERLOG body or in the upload table of its own tag.
C17_EverySyncableRecordFannedOut ==
    \A k \in DOMAIN upload :
        upload[k].failing = {} =>
            \A i \in DOMAIN upload[k].records :
                (/\ upload[k].records[i].tag \in SyncableTags
                 /\ StoreAccepts(upload[k].records[i])
                 /\ HasTemplate(upload[k].records[i]))
                    => \A t \in ActivePeers(k) : FanOutRows(k, i, t) # {}

\* C18: one uploaded record line yields at most one command per peer.
C18_AtMostOneCommandPerPeer ==
    \A k \in DOMAIN upload :
        \A i \in DOMAIN upload[k].records :
            \A t \in Terminals : Cardinality(FanOutRows(k, i, t)) <= 1

\* the tags that are kept on the server only
LocalTags == {"USERPIC", "BIOPHOTO", "ERRORLOG"}

\* record line i of upload k was stored: in the table of its tag, or for an
\* ERRORLOG line as a logged row of sync_log
RecordStored(k, i) ==
    \/ \E table \in {StoreTable(tag) : tag \in ParsedTags} \cup {"comparison_photos"} :
          \E r \in stored : r.table = table /\ r.up = k /\ r.rec = i
    \/ \E j \in DOMAIN sync_log :
          /\ sync_log[j].up = k
          /\ sync_log[j].rec = i
          /\ sync_log[j].status = "logged"

\* C19: an uploaded record line tagged USERPIC, BIOPHOTO or ERRORLOG is
\* stored, and it never causes a command on any terminal's queue.
C19_LocalTagsStoredNotSynced ==
    \A k \in DOMAIN upload :
        \A i \in DOMAIN upload[k].records :
            upload[k].records[i].tag \in LocalTags =>
                /\ RecordStored(k, i)
                /\ \A t \in Terminals : FanOutRows(k, i, t) = {}

\* the unified line that corresponds to a legacy fingerprint line:
\* BIODATA Pin=P No=F Index=0 Valid=V Duress=0 Type=1 ... Tmp=T
UnifiedOf(fp) ==
    LET d == parseKeyValueString(fp.parts) IN
    Rec("BIODATA", << <<"Pin", Field(d, "PIN")>>, <<"No", Field(d, "FID")>>,
                      <<"Index", "0">>, <<"Valid", Field(d, "Valid")>>,
                      <<"Duress", "0">>, <<"Type", "1">>, <<"MajorVer", "0">>,
                      <<"MinorVer", "0">>, <<"Format", "ZK">>,
                      <<"Tmp", Field(d, "TMP")>> >>)

\* the command payloads upload k left on terminal t's queue
PayloadsOn(k, t) ==
    {commands[r].command_data :
        r \in {x \in Rows : commands[x].up = k /\ commands[x].device_serial = t}}

\* the command payloads that ingesting one record line from serialNumber
\* leaves on terminal t's queue
PayloadsOf(serialNumber, table, record, t) ==
    LET cmds == SelectEffects(UploadEffects(serialNumber, table, <<record>>, {}), "cmd")
    IN {cmds[i].data : i \in {j \in DOMAIN cmds : cmds[j].target = t}}

\* C20: ingesting a legacy fingerprint line FP PIN=P FID=F ... TMP=T and
\* fanning it out leaves on each peer's queue the same command payload as
\* ingesting the unified line BIODATA Pin=P No=F Index=0 ... Type=1 ... Tmp=T.
C20_LegacyAndUnifiedSamePayload ==
    \A k \in DOMAIN upload :
        (/\ upload[k].failing = {}
         /\ upload[k].devices = devices
         /\ upload[k].table = "OPERLOG"
         /\ Len(upload[k].records) = 1
         /\ upload[k].records[1].tag = "FP")
            => \A t \in Registered \ {upload[k].serialNumber} :
                  PayloadsOn(k, t) =
                      PayloadsOf(upload[k].serialNumber, "BIODATA",
                                 UnifiedOf(upload[k].records[1]), t)

\* the rows of the store that record line i of upload k wrote and that are
\* still there
StoredRows(k, i) == {r \in stored : r.up = k /\ r.rec = i}

\* C26: ingest is idempotent on the store: when a terminal uploads the same
\* record line again, the tables hold the same number of rows as after the
\* first upload, so the rows of the two ingests never both remain.
C26_IngestIdempotent ==
    \A k1, k2 \in DOMAIN upload :
        (/\ k1 < k2
         /\ upload[k1].serialNumber = upload[k2].serialNumber
         /\ upload[k1].records = upload[k2].records)
            => \A i \in DOMAIN upload[k1].records :
                  StoredRows(k1, i) = {} \/ StoredRows(k2, i) = {}

\* C27: the store holds at most one biometric template row per (PIN, type,
\* slot, index), whichever terminal uploaded it.
C27_OneTemplateRowPerKey ==
    \A r1, r2 \in stored :
        (/\ r1.table = "bio_templates"
         /\ r2.table = "bio_templates"
         /\ SubSeq(r1.key, 1, 4) = SubSeq(r2.key, 1, 4))
            => r1 = r2

\* C28: every successfully handled request sets the terminal's last-seen to
\* the time of the request; for an upload: once the upload is handled, the
\* last_seen of the uploading terminal is not earlier than the upload.
C28_UploadSetsLastSeen ==
    \A k \in DOMAIN upload :
        \A i \in DOMAIN devices :
            devices[i].serial_number = upload[k].serialNumber
                => devices[i].last_seen >= upload[k].at

\* C30: the N of the response OK: N to an upload is the number of records of
\* the body that were accepted and stored, also when that number is 0.
C30_CountIsStoredRecords ==
    \A k \in DOMAIN upload :
        upload[k].response.N =
            Cardinality({i \in DOMAIN upload[k].records :
                            StoreAccepts(upload[k].records[i])})

\* the value of a key in a command payload, Undefined when the payload has
\* no such field
PayloadValue(data, key) ==
    LET at == {i \in 2..Len(data) : data[i][1] = key}
    IN IF at = {} THEN Undefined ELSE data[CHOOSE i \in at : \A j \in at : i <= j][2]

\* the biometric-put commands of the queues
BiodataCommands ==
    {r \in Rows : /\ "command_data" \in DOMAIN commands[r]
                  /\ commands[r].command_data[1] = "DATA UPDATE BIODATA"}

Digits == {"0", "1", "2", "3", "4", "5", "6", "7", "8", "9"}

\* the validation rules of a biometric-put payload
ValidBiodata(data) ==
    /\ PayloadValue(data, "Pin") \notin {Undefined, ""}
    /\ PayloadValue(data, "Type") \in Digits \ {"0"}
    /\ PayloadValue(data, "Tmp") \notin {Undefined, ""}
    /\ IsBase64(PayloadValue(data, "Tmp"))
    /\ ParseInt(PayloadValue(data, "No")) # "NaN"
    /\ ParseInt(PayloadValue(data, "Index")) # "NaN"
    /\ PayloadValue(data, "Type") = "1" => PayloadValue(data, "No") \in Digits
    /\ PayloadValue(data, "Type") \in {"2", "9"} => PayloadValue(data, "No") = "0"

\* C24: every biometric-put command in any queue satisfies the validation
\* rules: non-empty PIN, type in 1..9, non-empty base64 template, integer
\* slot and index, slot 0..9 for a fingerprint and slot 0 for a face.
C24_QueuedBiodataValid ==
    \A r \in BiodataCommands : ValidBiodata(commands[r].command_data)

\* the template lines, and those of them whose payload addBiodataTemplate's
\* validation refuses: no PIN, no template, or a template with a character
\* outside the base64 alphabet
BiometricTags == {"FP", "FACE", "FVEIN", "BIODATA"}

FailsValidation(record) ==
    LET d == parseKeyValueString(record.parts)
        pin == IF record.tag \in {"FP", "FACE"} THEN Field(d, "PIN") ELSE Field(d, "Pin")
        tmp == IF record.tag \in {"FP", "FACE"} THEN Field(d, "TMP") ELSE Field(d, "Tmp")
    IN /\ record.tag \in BiometricTags
       /\ \/ pin \in {Undefined, ""}
          \/ tmp \in {Undefined, "", "QUJD\r"}

\* the terminals other than the source in the devices table when upload k
\* was handled
PeersAt(k) ==
    {upload[k].devices[i].serial_number : i \in DOMAIN upload[k].devices}
        \ {upload[k].serialNumber}

\* C25: when the payload validation fails for a (peer, record) pair during
\* the fan-out, no command row is inserted for the pair and the sync_log row
\* of the pair has status skipped.
C25_RefusedPairSkipped ==
    \A k \in DOMAIN upload :
        \A i \in DOMAIN upload[k].records :
            \A t \in PeersAt(k) \ upload[k].failing :
                (/\ upload[k].table \in SyncingTables
                 /\ FailsValidation(upload[k].records[i]))
                    => /\ FanOutRows(k, i, t) = {}
                       /\ SyncLogRows(k, i, t) # {}
                       /\ \A j \in SyncLogRows(k, i, t) : sync_log[j].status = "skipped"

\* C25, its case: a line whose template fails the validation was fanned out
\* to a peer and left a skipped row in the sync log.
C25_Witness ==
    \E k \in DOMAIN upload :
        \E i \in DOMAIN upload[k].records :
            \E t \in PeersAt(k) :
                /\ upload[k].table \in SyncingTables
                /\ FailsValidation(upload[k].records[i])
                /\ upload[k].records[i] = FpCrlfRecord
                /\ \E j \in SyncLogRows(k, i, t) : sync_log[j].status = "skipped"

\* the command string of a poll response, after C:<command_id>:
Payload(row) == SubSeq(formatCommand(row), 4, Len(formatCommand(row)))

\* the rows the polls returned
DeliveredRows == {delivered[i] : i \in DOMAIN delivered}

\* the pieces of a split('=') joined again by '='
RECURSIVE JoinEq(_)
JoinEq(pieces) ==
    IF pieces = << >> THEN << >>
    ELSE (IF pieces[1] = "" THEN << >> ELSE <<pieces[1]>>)
         \o (IF Len(pieces) > 1 THEN <<EQ>> ELSE << >>)
         \o JoinEq(Tail(pieces))

\* the template of an uploaded line as the terminal sent it
UploadedTemplate(record) ==
    LET at == {i \in DOMAIN record.parts : record.parts[i][1] \in {"TMP", "Tmp"}}
    IN JoinEq(Tail(record.parts[CHOOSE i \in at : \A j \in at : j <= i]))

\* C21: for every uploaded biometric record that results in a command, the
\* template in the command returned to the peer is the uploaded template,
\* character for character, trailing '=' padding included.
C21_TemplateUnchanged ==
    \A r \in DeliveredRows :
        "up" \in DOMAIN commands[r] =>
            LET record == upload[commands[r].up].records[commands[r].rec]
            IN record.tag \in BiometricTags =>
                  extractTmp(Payload(commands[r])).value = UploadedTemplate(record)

\* the fields of a parameter string, split at the tabs
RECURSIVE SplitTabs(_)
SplitTabs(str) ==
    LET tabs == {i \in DOMAIN str : str[i] = HT}
    IN IF tabs = {} THEN <<str>>
       ELSE <<SubSeq(str, 1, Least(tabs) - 1)>>
            \o SplitTabs(SubSeq(str, Least(tabs) + 1, Len(str)))

ParamIndex(name) == CHOOSE i \in DOMAIN orderedParams : orderedParams[i] = name
ParamNames == {orderedParams[i] : i \in DOMAIN orderedParams}

\* the parameters of a biometric-put command are fields key=value of distinct
\* keys in the canonical order, with exactly one tab between two fields
Canonical(commandData) ==
    LET fields == SplitTabs(SubSeq(commandData, 3, Len(commandData)))
    IN \/ Len(commandData) <= 2
       \/ /\ \A i \in DOMAIN fields :
                /\ Len(fields[i]) >= 2
                /\ fields[i][1] \in ParamNames
                /\ fields[i][2] = EQ
                /\ \A j \in 3..Len(fields[i]) :
                      /\ fields[i][j] \notin WhiteSpace
                      /\ ~(/\ j < Len(fields[i])
                           /\ fields[i][j] \in ParamNames
                           /\ fields[i][j + 1] = EQ)
          /\ \A i, j \in DOMAIN fields :
                i < j => ParamIndex(fields[i][1]) < ParamIndex(fields[j][1])

\* C22: every DATA UPDATE BIODATA payload returned by a poll has its present
\* fields in the canonical order Pin, No, Index, Valid, Duress, Type,
\* MajorVer, MinorVer, Format, Tmp, separated by exactly one tab each, and no
\* key twice.
C22_ReturnedBiodataCanonical ==
    \A r \in DeliveredRows :
        Payload(commands[r])[1] = "DATA UPDATE BIODATA" => Canonical(Payload(commands[r]))

\* C23: a BIODATA command enqueued with spaces instead of tabs is repaired
\* before the row is stored: the stored command_data is the repaired string.
C23_StoredRowRepaired ==
    \A r \in Rows :
        CommandText(commands[r])[1] = "DATA UPDATE BIODATA"
            => CommandText(commands[r]) = validateAndFixTabs(CommandText(commands[r]))

\* the Return codes the lines of a reply body carry
ReturnsOf(body) == {LineReturn(body[i]) : i \in DOMAIN body}

\* C29: a reply that reports a non-zero Return is answered OK, exactly as a
\* reply that reports success.
C29_FailureReplyAnsweredOK ==
    \A i \in DOMAIN responses :
        ReturnsOf(responses[i].body) # {"0"}
            => responses[i].response = [status |-> 200, text |-> "OK"]

\* C29, its case: a reply with a non-zero Return for a command a poll had
\* returned was answered, and so was a reply with Return 0.
C29_Witness ==
    \E i, j \in DOMAIN responses :
        /\ ReturnsOf(responses[i].body) = {"-1003"}
        /\ LineId(responses[i].body[1]) \in WireIds
        /\ ReturnsOf(responses[j].body) = {"0"}
        /\ responses[i].response = responses[j].response

(* ------------------- terminals that keep polling ----------------------- *)

\* rows ever inserted into the table while the terminals keep polling
MaxPollCmds == 2

\* queueCommandForDevice: one INSERT
queueCommand(sn) ==
    /\ InsertCommand(sn, MaxPollCmds)
    /\ UNCHANGED <<now, ticks, poll, reply, sweeper, delivered, acked>>

\* reply bodies of one line
OneLineBodies == {<<l>> : l \in Lines(WireIds)}

\* the terminal that keeps polling
PollingSerials == {"A01"}

\* the mysql build with a terminal that polls and replies
NextPolling ==
    \/ \E sn \in PollingSerials : queueCommand(sn)
    \/ \E p \in Pollers, sn \in PollingSerials : getDeviceCommands(p, sn)
    \/ \E p \in Pollers : markCommandSent(p)
    \/ \E sn \in PollingSerials, body \in OneLineBodies : devicecmd(sn, body)
    \/ markCommandCompleted_retry
    \/ markCommandCompleted_requeue
    \/ Tick(1)

\* The terminal keeps polling, so the arrival of its poll request is strongly
\* fair (a request waits while all slots are taken); a handler in flight runs
\* on, so its later statements are weakly fair.
FairSpecPolling ==
    /\ Init /\ [][NextPolling /\ UNCHANGED syncVars]_vars
    /\ \A sn \in PollingSerials :
          SF_vars((\E p \in Pollers : getDeviceCommands(p, sn)) /\ UNCHANGED syncVars)
    /\ WF_vars((\E p \in Pollers : markCommandSent(p)) /\ UNCHANGED syncVars)
    /\ WF_vars(markCommandCompleted_retry /\ UNCHANGED syncVars)
    /\ WF_vars(markCommandCompleted_requeue /\ UNCHANGED syncVars)

(* ----------------- operator requests (management API) ------------------ *)

\* operator requests handled
MaxOps == 2

\* data uploads processed next to the operator requests
MaxOpUploads == 1

\* the column that holds the PIN in a record line of a tag
PinColumn(tag) == IF tag \in {"FVEIN", "BIODATA"} THEN "Pin" ELSE "PIN"

\* the pin column of a stored row: a row an operator request inserted carries
\* it, a row an upload inserted has it from its record line
RowPin(r) ==
    IF r.up = 0 THEN r.pin
    ELSE LET record == upload[r.up].records[r.rec]
         IN Field(parseKeyValueString(record.parts), PinColumn(record.tag))

\* the device_serial column of a stored row: the rows of operator requests
\* have none
RowOwnedBy(r, serialNumber) == r.up # 0 /\ upload[r.up].serialNumber = serialNumber

\* the store's one connection: BEGIN TRANSACTION opens a transaction that
\* every later statement on the connection belongs to, whichever request
\* issues it, until COMMIT or ROLLBACK
NoTx == [open |-> FALSE]
OpenTx(k) ==
    [open |-> TRUE, owner |-> k, stored |-> stored, commands |-> commands,
     devices |-> devices, sync_log |-> sync_log]

\* ROLLBACK: the tables are as they were at BEGIN
Rollback ==
    /\ stored' = tx.stored
    /\ commands' = tx.commands
    /\ devices' = tx.devices
    /\ sync_log' = tx.sync_log
    /\ tx' = NoTx

\* a new request and its position; status 0: not answered yet
Request(kind, arg, pc) == [kind |-> kind, arg |-> arg, pc |-> pc, status |-> 0]

InFlight(kind, pcs) ==
    {k \in DOMAIN ops : ops[k].kind = kind /\ ops[k].status = 0 /\ ops[k].pc \in pcs}

\* the commands one request enqueues, in order; op is history: the request
OpRows(k, cmds) ==
    [r \in Rows \cup (nextId..(nextId + Len(cmds) - 1)) |->
        IF r \in Rows THEN commands[r]
        ELSE CommandRow(cmds[r - nextId + 1].target, r)
                @@ [command_type |-> cmds[r - nextId + 1].type,
                    command_data |-> cmds[r - nextId + 1].data, op |-> k]]

(* DeviceManager.removeDevice: Database.transaction runs BEGIN TRANSACTION,
   then awaits the DELETE statements one after the other, then COMMIT; on an
   error it runs ROLLBACK and rejects. *)
RemovalDeletes ==
    <<"users", "fingerprint_templates", "face_templates", "finger_vein_templates",
      "bio_templates", "user_photos", "comparison_photos", "work_codes",
      "short_messages", "user_sms", "id_cards", "commands", "device_configs", "devices">>

\* DELETE FROM <table> WHERE device_serial = ? (devices: serial_number = ?);
\* the rows of device_configs are not part of the state
DeleteWhereSerial(table, serialNumber) ==
    /\ commands' = IF table = "commands"
                   THEN [r \in {x \in Rows : commands[x].device_serial # serialNumber} |->
                            commands[r]]
                   ELSE commands
    /\ devices' = IF table = "devices"
                  THEN SelectSeq(devices, LAMBDA d : d.serial_number # serialNumber)
                  ELSE devices
    /\ stored' = {r \in stored : ~(r.table = table /\ RowOwnedBy(r, serialNumber))}
    /\ UNCHANGED sync_log

\* the records a terminal owns
OwnedBy(serialNumber) ==
    [stored |-> {r \in stored : RowOwnedBy(r, serialNumber)},
     commands |-> {r \in Rows : commands[r].device_serial = serialNumber},
     devices |-> {i \in DOMAIN devices : devices[i].serial_number = serialNumber}]

Nothing_owned == [stored |-> {}, commands |-> {}, devices |-> {}]

\* BEGIN TRANSACTION, issued without a callback.  While another transaction
\* is open the statement fails and the failure is raised as an error event
\* that nothing listens for, which ends the process: no request goes on
removeDevice_begin(serialNumber) ==
    /\ Len(ops) < MaxOps
    /\ ~tx.open
    /\ tx' = OpenTx(Len(ops) + 1)
    /\ ops' = Append(ops, Request("removeDevice", serialNumber, 1))
    /\ UNCHANGED <<vars, devices, sync_log, stored, upload, responses>>

\* the next DELETE; when it fails the transaction is rolled back and the
\* request answered 500
removeDevice_delete(k, ok) ==
    /\ k \in InFlight("removeDevice", DOMAIN RemovalDeletes)
    /\ IF ok
       THEN /\ DeleteWhereSerial(RemovalDeletes[ops[k].pc], ops[k].arg)
            /\ ops' = [ops EXCEPT ![k].pc = @ + 1]
            /\ UNCHANGED tx
       ELSE /\ Rollback
            /\ ops' = [ops EXCEPT ![k].status = 500]
    /\ UNCHANGED <<now, ticks, nextId, poll, reply, sweeper, delivered, acked,
                   upload, responses>>

\* COMMIT; remaining is history: what the terminal owns when the removal is
\* answered
removeDevice_commit(k) ==
    /\ k \in InFlight("removeDevice", {Len(RemovalDeletes) + 1})
    /\ tx' = NoTx
    /\ ops' = [ops EXCEPT ![k] = [@ EXCEPT !.status = 200]
                                    @@ [remaining |-> OwnedBy(ops[k].arg)]]
    /\ UNCHANGED <<vars, devices, sync_log, stored, upload, responses>>

(* ManagementAPI.deleteUser *)
DeleteUserDeletes ==
    <<"fingerprint_templates", "face_templates", "bio_templates", "user_photos",
      "comparison_photos", "users">>

\* the tables that hold a user's biometrics and photos
BiometricTables ==
    {"fingerprint_templates", "face_templates", "finger_vein_templates", "bio_templates",
     "user_photos", "comparison_photos"}

\* the rows of the users table and of the biometric tables that carry a PIN
RowsOfPin(rows, pin) ==
    {r \in rows : r.table \in BiometricTables \cup {"users"} /\ RowPin(r) = pin}

\* CommandManager.deleteUser
deleteUser(pin) == Enqueue(<<"DATA DELETE USERINFO", <<"PIN", pin>> >>)

\* DeviceManager.getActiveDevices computes the threshold and selects
\* 'SELECT * FROM devices ': every row, in the table's order
getActiveDevices == devices

\* SELECT * FROM users WHERE pin = ?: 404 when there is no such row
ManagementAPI_deleteUser_select(pin) ==
    /\ Len(ops) < MaxOps
    /\ ops' = Append(ops, [Request("deleteUser", pin, 0) EXCEPT
                              !.status = IF \E r \in stored : r.table = "users" /\ RowPin(r) = pin
                                         THEN 0 ELSE 404])
    /\ UNCHANGED <<vars, devices, sync_log, stored, upload, responses, tx>>

\* await this.db.run('BEGIN TRANSACTION'): while a transaction is open the
\* statement fails, and the request is answered 500
ManagementAPI_deleteUser_begin(k) ==
    /\ k \in InFlight("deleteUser", {0})
    /\ IF tx.open
       THEN /\ ops' = [ops EXCEPT ![k].status = 500]
            /\ UNCHANGED tx
       ELSE /\ ops' = [ops EXCEPT ![k] = [@ EXCEPT !.pc = 1] @@ [before |-> stored]]
            /\ tx' = OpenTx(k)
    /\ UNCHANGED <<vars, devices, sync_log, stored, upload, responses>>

\* the next DELETE FROM <table> WHERE pin = ?; when it fails: ROLLBACK, 500;
\* before is history: the tables at BEGIN
ManagementAPI_deleteUser_delete(k, ok) ==
    /\ k \in InFlight("deleteUser", DOMAIN DeleteUserDeletes)
    /\ IF ok
       THEN /\ stored' = {r \in stored : ~(/\ r.table = DeleteUserDeletes[ops[k].pc]
                                           /\ RowPin(r) = ops[k].arg)}
            /\ ops' = [ops EXCEPT ![k].pc = @ + 1]
            /\ UNCHANGED <<commands, devices, sync_log, tx>>
       ELSE /\ Rollback
            /\ ops' = [ops EXCEPT ![k] = [@ EXCEPT !.status = 500] @@ [after |-> tx.stored]]
    /\ UNCHANGED <<now, ticks, nextId, poll, reply, sweeper, delivered, acked,
                   upload, responses>>

\* COMMIT; after is history: the tables when the transaction ends
ManagementAPI_deleteUser_commit(k) ==
    /\ k \in InFlight("deleteUser", {Len(DeleteUserDeletes) + 1})
    /\ tx' = NoTx
    /\ ops' = [ops EXCEPT ![k] = [@ EXCEPT !.pc = @ + 1] @@ [after |-> stored]]
    /\ UNCHANGED <<vars, devices, sync_log, stored, upload, responses>>

\* the commands of one builder for every terminal of a list
ForDevices(list, type, result) ==
    [i \in DOMAIN list |->
        [target |-> list[i].serial_number, type |-> type, data |-> result.data]]

\* after COMMIT: a delete command for every terminal getActiveDevices
\* returns, then the answer; devices, at and queued are history: the devices
\* table and the time of the fan-out, and the terminals of its commands
ManagementAPI_deleteUser_sync(k) ==
    /\ k \in InFlight("deleteUser", {Len(DeleteUserDeletes) + 2})
    /\ LET cmds == ForDevices(getActiveDevices, "DATA", deleteUser(ops[k].arg))
       IN /\ commands' = OpRows(k, cmds)
          /\ nextId' = nextId + Len(cmds)
    /\ ops' = [ops EXCEPT ![k] = [@ EXCEPT !.status = 200]
                                    @@ [devices |-> devices, at |-> now,
                                        queued |-> [i \in DOMAIN getActiveDevices |->
                                                       getActiveDevices[i].serial_number]]]
    /\ UNCHANGED <<now, ticks, poll, reply, sweeper, delivered, acked,
                   devices, sync_log, stored, upload, responses, tx>>

(* ManagementAPI.addUser *)
\* the PINs the operator's users get, as numbers and as strings
PinStrings == <<"1", "2", "3">>

\* CAST(pin AS INTEGER) of a pin that GLOB '[0-9]*' matches
PinNumber(pin) == CHOOSE n \in DOMAIN PinStrings : PinStrings[n] = pin

\* SELECT MAX(CAST(pin AS INTEGER)) FROM users WHERE pin GLOB '[0-9]*'; 0 for
\* the NULL of an empty table
maxPin ==
    LET pins == {RowPin(r) : r \in {x \in stored : x.table = "users"}}
        numbers == {PinNumber(p) : p \in {q \in pins : \E n \in DOMAIN PinStrings :
                                                           PinStrings[n] = q}}
    IN IF numbers = {} THEN 0 ELSE CHOOSE n \in numbers : \A m \in numbers : m <= n

\* result.maxPin ? (result.maxPin + 1).toString() : '1'
nextPin == IF maxPin = 0 THEN "1" ELSE PinStrings[maxPin + 1]

ManagementAPI_addUser_select ==
    /\ Len(ops) < MaxOps
    /\ ops' = Append(ops, Request("addUser", nextPin, 1))
    /\ UNCHANGED <<vars, devices, sync_log, stored, upload, responses, tx>>

\* INSERT INTO users (pin, name, ...): the table has no UNIQUE constraint
ManagementAPI_addUser_insert(k) ==
    /\ k \in InFlight("addUser", {1})
    /\ stored' = stored \cup {[table |-> "users", key |-> NoKey, up |-> 0, rec |-> k,
                               pin |-> ops[k].arg]}
    /\ ops' = [ops EXCEPT ![k].pc = 2]
    /\ UNCHANGED <<vars, devices, sync_log, upload, responses, tx>>

\* CommandManager.syncDeviceTime: two SET OPTION commands and RELOAD OPTIONS
syncDeviceTime ==
    <<Enqueue(<<"SET OPTION", <<"TimeZone", "0">> >>),
      Enqueue(<<"SET OPTION", <<"DateTime", "now">> >>),
      Enqueue(<<"RELOAD OPTIONS">>)>>

\* the time commands of every terminal, then the user command of every
\* terminal, then the answer with the new user's PIN
ManagementAPI_addUser_sync(k) ==
    /\ k \in InFlight("addUser", {2})
    /\ LET list == getActiveDevices
           time == [i \in 1..(3 * Len(list)) |->
                       [target |-> list[((i - 1) \div 3) + 1].serial_number,
                        type |-> "CONFIG",
                        data |-> syncDeviceTime[((i - 1) % 3) + 1].data]]
           user == ForDevices(list, "DATA",
                              addUser([pin |-> ops[k].arg, name |-> "Ann",
                                       privilege |-> "0", password |-> "", card |-> "",
                                       groupId |-> "1", timeZone |-> "0000000000000000",
                                       verifyMode |-> "-1", viceCard |-> ""]))
       IN /\ commands' = OpRows(k, time \o user)
          /\ nextId' = nextId + Len(time \o user)
    /\ ops' = [ops EXCEPT ![k].status = 200]
    /\ UNCHANGED <<now, ticks, poll, reply, sweeper, delivered, acked,
                   devices, sync_log, stored, upload, responses, tx>>

\* the record lines uploaded next to the operator requests
OpBodies == {<<UserRecord, FveinRecord>>}

\* an upload handled while requests are in flight
opUpload(serialNumber, records) ==
    /\ Len(upload) < MaxOpUploads
    /\ DataUpload(serialNumber, "OPERLOG", records, {})

\* removals next to registrations and uploads
NextRemoval ==
    \/ \E sn \in Serials : registerDevice(sn)
    \/ \E sn \in Registered, records \in OpBodies : opUpload(sn, records)
    \/ \E sn \in Registered : removeDevice_begin(sn)
    \/ \E k \in DOMAIN ops, ok \in BOOLEAN : removeDevice_delete(k, ok)
    \/ \E k \in DOMAIN ops : removeDevice_commit(k)

SpecRemoval == Init /\ [][NextRemoval]_<<vars, syncVars>>

\* the operator's user requests next to registrations and uploads
NextUsers ==
    \/ \E sn \in Serials : registerDevice(sn)
    \/ \E sn \in Registered, records \in OpBodies : opUpload(sn, records)
    \/ now = 0 /\ Tick(ActiveWindow + 1) /\ UNCHANGED syncVars
    \/ \E pin \in {"1"} : ManagementAPI_deleteUser_select(pin)
    \/ \E k \in DOMAIN ops : ManagementAPI_deleteUser_begin(k)
    \/ \E k \in DOMAIN ops, ok \in BOOLEAN : ManagementAPI_deleteUser_delete(k, ok)
    \/ \E k \in DOMAIN ops : ManagementAPI_deleteUser_commit(k)
    \/ \E k \in DOMAIN ops : ManagementAPI_deleteUser_sync(k)
    \/ ManagementAPI_addUser_select
    \/ \E k \in DOMAIN ops : ManagementAPI_addUser_insert(k)
    \/ \E k \in DOMAIN ops : ManagementAPI_addUser_sync(k)

SpecUsers == Init /\ [][NextUsers]_<<vars, syncVars>>

(* ---------------------- init requests, by statement --------------------- *)

\* init requests handled
MaxInits == 3

\* ZKPushServer.handleInitialization, DeviceManager.registerDevice:
\* SELECT * FROM devices WHERE serial_number = ?; existing tells whether the
\* row was there, at is lastSeen, the time of the request
registerDevice_select(serialNumber) ==
    /\ Len(ops) < MaxInits
    /\ ops' = Append(ops, Request("init", serialNumber, 1)
                              @@ [existing |-> serialNumber \in Registered, at |-> now])
    /\ UNCHANGED <<vars, devices, sync_log, stored, upload, responses, tx>>

\* the UPDATE of the existing row, or the INSERT of a new one: serial_number
\* is UNIQUE, the INSERT of a second row for the serial fails, registerDevice
\* rethrows and the request is answered 500
registerDevice_write(k) ==
    /\ k \in InFlight("init", {1})
    /\ IF ops[k].existing
       THEN /\ devices' = [i \in DOMAIN devices |->
                              IF devices[i].serial_number = ops[k].arg
                              THEN [devices[i] EXCEPT !.last_seen = ops[k].at]
                              ELSE devices[i]]
            /\ ops' = [ops EXCEPT ![k].status = 200]
       ELSE IF ops[k].arg \in Registered
       THEN /\ ops' = [ops EXCEPT ![k].status = 500]
            /\ UNCHANGED devices
       ELSE /\ devices' = Append(devices, [serial_number |-> ops[k].arg,
                                           last_seen |-> ops[k].at, created_at |-> now])
            /\ ops' = [ops EXCEPT ![k].status = 200]
    /\ UNCHANGED <<vars, sync_log, stored, upload, responses, tx>>

NextInit ==
    \/ \E sn \in Serials : registerDevice_select(sn)
    \/ \E k \in DOMAIN ops : registerDevice_write(k)
    \/ Tick(ActiveWindow + 1) /\ UNCHANGED syncVars

SpecInit == Init /\ [][NextInit]_<<vars, syncVars>>

(* ------------- CommandManager.addUserWithBiometrics --------------------- *)

\* a base64 template of fourteen characters
LongTemplate == "QUJDREVGR0hJSg"

\* template.length < 10
TooShort(template) == template # LongTemplate

\* typeMapping[biometricType.toLowerCase()], undefined for an unknown type
typeMapping(biometricType) ==
    CASE biometricType = "fingerprint" -> "1"
      [] biometricType = "face" -> "2"
      [] biometricType = "fingervein" -> "7"
      [] OTHER -> Undefined

\* CommandManager.validateBiometricTemplate
validateBiometricTemplate(templateData, biometricType) ==
    /\ templateData.pin \notin {Undefined, ""}
    /\ templateData.template \notin {Undefined, ""}
    /\ IsBase64(templateData.template)
    /\ biometricType \in {"fingerprint", "fingervein"}
          => templateData.fid \in {"0", "1", "2", "3", "4", "5", "6", "7", "8", "9"}
    /\ biometricType = "face" => templateData.fid = "0"
    /\ ~TooShort(templateData.template)

\* CommandManager.addUnifiedBiometricTemplate
addUnifiedBiometricTemplate(templateInfo) ==
    IF ~validateBiometricTemplate(templateInfo, templateInfo.biometricType) THEN Refuse
    ELSE IF typeMapping(templateInfo.biometricType) = Undefined THEN Refuse
    ELSE addBiodataTemplate(
             [pin |-> templateInfo.pin, no |-> templateInfo.fid,
              index |-> templateInfo.index, valid |-> templateInfo.valid,
              duress |-> "0", type |-> typeMapping(templateInfo.biometricType),
              majorVer |-> "0", minorVer |-> "0", format |-> "ZK",
              template |-> templateInfo.template])

\* i.toString() for the positions of a biometrics array
IndexString(i) == <<"0", "1", "2">>[i + 1]

\* the helper results of a biometrics array, in the order of the loop:
\* fid: biometric.fid || i, valid: biometric.valid || 1, index: biometric.index || 0
BiometricResults(pin, biometrics) ==
    [i \in DOMAIN biometrics |->
        addUnifiedBiometricTemplate(
            [pin |-> pin, biometricType |-> biometrics[i].type,
             fid |-> IF biometrics[i].fid \in {Undefined, "", "0"}
                     THEN IndexString(i - 1) ELSE biometrics[i].fid,
             template |-> biometrics[i].template,
             valid |-> IF biometrics[i].valid \in {Undefined, "", "0"}
                       THEN "1" ELSE biometrics[i].valid,
             index |-> OrElse(biometrics[i].index, "0")])]

\* the helper calls in another order: the biometrics first, then the user
addUserWithBiometrics_bioFirst(userInfo, biometrics) ==
    SelectSeq(BiometricResults(userInfo.pin, biometrics), LAMBDA x : x.add)
        \o <<addUser(userInfo)>>

\* the commands addUserWithBiometrics hands to addCommand, in order: the
\* user first, then the biometrics its helper accepts
addUserWithBiometrics_commands(userInfo, biometrics) ==
    <<addUser(userInfo)>>
        \o SelectSeq(BiometricResults(userInfo.pin, biometrics), LAMBDA x : x.add)

\* operator requests with biometrics handled
MaxBioOps == 2

\* CommandManager.addUserWithBiometrics; failAt is the INSERT that throws (0:
\* none): the method's catch ends the loop there and returns success: false,
\* which the request is answered with
addUserWithBiometrics(deviceSerial, userInfo, biometrics, failAt) ==
    /\ Len(ops) < MaxBioOps
    /\ LET all == addUserWithBiometrics_commands(userInfo, biometrics)
           done == IF failAt = 0 THEN all ELSE SubSeq(all, 1, failAt - 1)
           cmds == [i \in DOMAIN done |->
                       [target |-> deviceSerial, type |-> "DATA", data |-> done[i].data]]
       IN /\ failAt <= Len(all)
          /\ commands' = OpRows(Len(ops) + 1, cmds)
          /\ nextId' = nextId + Len(cmds)
          /\ ops' = Append(ops, [Request("addUserWithBiometrics", userInfo.pin, 0) EXCEPT
                                    !.status = 200]
                                 @@ [success |-> failAt = 0, biometrics |-> biometrics,
                                     failAt |-> failAt])
    /\ UNCHANGED <<now, ticks, poll, reply, sweeper, delivered, acked,
                   devices, sync_log, stored, upload, responses, tx>>

\* a biometric of a request body
Biometric(type, fid, template) ==
    [type |-> type, fid |-> fid, template |-> template, valid |-> Undefined,
     index |-> Undefined]

Biometrics ==
    {Biometric("fingerprint", Undefined, LongTemplate),
     Biometric("face", Undefined, LongTemplate),
     Biometric("fingerprint", "12", LongTemplate),
     Biometric("fingerprint", Undefined, Template),
     Biometric("iris", Undefined, LongTemplate)}

\* the biometrics arrays of the requests
BiometricLists ==
    {<< >>} \cup {<<b>> : b \in Biometrics} \cup {<<a, b>> : a, b \in Biometrics}

NewUser ==
    [pin |-> "2", name |-> "Bob", privilege |-> Undefined, password |-> Undefined,
     card |-> Undefined, groupId |-> Undefined, timeZone |-> Undefined,
     verifyMode |-> Undefined, viceCard |-> Undefined]

NextBio ==
    \/ \E sn \in Serials : registerDevice(sn)
    \/ \E sn \in Registered, biometrics \in BiometricLists, failAt \in 0..3 :
          addUserWithBiometrics(sn, NewUser, biometrics, failAt)

SpecBio == Init /\ [][NextBio]_<<vars, syncVars>>

\* the uploads handled while the store was failing
FailedUploads == {k \in DOMAIN upload : "storeError" \in DOMAIN upload[k]}

\* C31: when a store operation fails while an upload is handled, the
\* response has status 500 and a fixed generic body: it is no success, no
\* 400, and does not carry the text of the store's error.
C31_StoreErrorAnswered500 ==
    \A k \in FailedUploads :
        /\ upload[k].response.status = 500
        /\ upload[k].response.text # StoreErrorText

\* C32: once the removal of a terminal is answered, no record the terminal
\* owns remains: no row of the uploaded-data tables, no command, no devices
\* row, whatever uploads ran while the removal was in progress.
C32_RemovalLeavesNothing ==
    \A k \in DOMAIN ops :
        (ops[k].kind = "removeDevice" /\ ops[k].status = 200)
            => ops[k].remaining = Nothing_owned

\* the operator's user deletions whose transaction has ended
EndedDeletes == {k \in DOMAIN ops : ops[k].kind = "deleteUser" /\ "after" \in DOMAIN ops[k]}

\* C33: a user deletion removes the users row and every fingerprint, face,
\* finger-vein, unified biometric, user-photo and comparison-photo row with
\* the PIN in one transaction: when it commits none of them is left, and when
\* it fails all of them are as they were.
C33_DeleteRemovesEveryRow ==
    \A k \in EndedDeletes :
        IF ops[k].status = 500
        THEN RowsOfPin(ops[k].after, ops[k].arg) = RowsOfPin(ops[k].before, ops[k].arg)
        ELSE RowsOfPin(ops[k].after, ops[k].arg) = {}

\* the terminals of a devices table last seen within the activity window
ActiveIn(table, at) ==
    {table[i].serial_number :
        i \in {j \in DOMAIN table : table[j].last_seen >= at - ActiveWindow}}

\* C34: after a user deletion, exactly the terminals that were active at the
\* time have one DATA DELETE USERINFO command each for the PIN.
C34_DeleteCommandPerActiveTerminal ==
    \A k \in DOMAIN ops :
        (ops[k].kind = "deleteUser" /\ ops[k].status = 200) =>
            \A sn \in Serials :
                Cardinality({i \in DOMAIN ops[k].queued : ops[k].queued[i] = sn})
                    = IF sn \in ActiveIn(ops[k].devices, ops[k].at) THEN 1 ELSE 0

\* the tables a transaction covers
txTables == <<stored, commands, devices, sync_log>>

\* a statement that writes while a transaction stays open belongs to the
\* request that opened it
OwnStatementsOnly ==
    (tx.open /\ tx' = tx /\ txTables' # txTables) => ops'[tx.owner] # ops[tx.owner]

\* no request fails at its BEGIN because of the transaction of another
NoAbortAtBegin ==
    \A k \in DOMAIN ops : ~(ops[k].status = 0 /\ ops[k].pc = 0 /\ ops'[k].status = 500)

\* C37: the statements of one request never execute inside the open
\* transaction of another request, and a transaction never aborts another
\* one that overlaps it.
C37_TransactionsIsolated ==
    [][OwnStatementsOnly /\ NoAbortAtBegin]_<<vars, syncVars>>

\* the create-user requests answered with their new user
CreatedUsers == {k \in DOMAIN ops : ops[k].kind = "addUser" /\ ops[k].status = 200}

\* C38: two create-user requests are never answered with the same PIN.
C38_DistinctGeneratedPins ==
    \A j, k \in CreatedUsers : j # k => ops[j].arg # ops[k].arg

\* C36: a sync-log row of the fan-out has status queued exactly when a
\* command for its target and record line was inserted.
C36_QueuedIffCommandInserted ==
    \A j \in DOMAIN sync_log :
        sync_log[j].action = "sync" =>
            (sync_log[j].status = "queued"
                <=> FanOutRows(sync_log[j].up, sync_log[j].rec, sync_log[j].target_device) # {})

\* the init requests answered
AnsweredInits == {k \in DOMAIN ops : ops[k].kind = "init" /\ ops[k].status # 0}

\* C35: however many init requests arrive for a serial number, one after the
\* other or together, each of them succeeds and the registry holds exactly
\* one record for the serial number.
C35_InitIdempotent ==
    \A k \in AnsweredInits :
        /\ ops[k].status = 200
        /\ Cardinality({i \in DOMAIN devices : devices[i].serial_number = ops[k].arg}) = 1

\* the last poll response carried row r, which it marked sent
JustReturned(r) ==
    /\ delivered # << >>
    /\ delivered[Len(delivered)] = r
    /\ r \in Rows /\ StatusOf(r) = "sent"

CommandsOfOp(k, head) ==
    {r \in Rows : /\ "op" \in DOMAIN commands[r]
                  /\ commands[r].op = k
                  /\ commands[r].command_data[1] = head}

BioOps == {k \in DOMAIN ops : ops[k].kind = "addUserWithBiometrics"}

====
